---- MODULE Spec2Model ----
(***************************************************************************)
(* A model of easy_profiler's trace reader/writer                          *)
(* (Source/ThirdParty/easy_profiler/easy_profiler_core/reader.cpp):        *)
(* fillTreesFromStream (decode), readDescriptionsFromStream                *)
(* (decodeDescriptorsOnly) and writeTreesToStream (encode).                *)
(*                                                                         *)
(* The byte stream is modelled at the granularity of the reads the code    *)
(* performs: every read action draws the value it reads from a bounded     *)
(* domain (the record D handed to the action), so a behaviour of the model *)
(* is the run of the code over one concrete stream.  Block indices, ids    *)
(* and positions are kept 0-based as in the code; the TLA+ sequences that  *)
(* hold them are 1-based, hence the "+ 1" at every subscript.              *)
(***************************************************************************)
EXTENDS Integers, Sequences, FiniteSets, TLC

VARIABLES
    op,                 \* which entry point runs: "decode", "descriptions", "encode"
    pc,                 \* the position of the running entry point
    progress,           \* the caller's std::atomic<int> progress cell
    result,             \* the value the entry point returned
    err,                \* which return statement was taken ("" = none yet)
    eof,                \* inFile.eof()
    bytesRead,          \* bytes consumed from inFile so far
    signature,          \* local `signature`
    version,            \* out-parameter `version`
    header,             \* local EasyFileHeader
    hdrIn,              \* the header fields as they stand in the stream
    gather_statistics,  \* parameter gather_statistics
    descriptors,        \* out-parameter descriptors (descriptors_list_t)
    descI,              \* local `i` of the descriptor loop (bytes stored)
    blocks,             \* out-parameter blocks (blocks_t)
    poolI,              \* local `i` of the block loops (bytes stored in serialized_blocks)
    read_number,        \* local read_number
    threshold,          \* local threshold
    blocks_counter,     \* local blocks_counter
    threaded_trees,     \* out-parameter threaded_trees: thread id -> BlocksTreeRoot
    thread_id,          \* local thread_id of the section being read
    sections,           \* number of per-thread sections read so far
    identification_table, \* local IdMap: runtime name -> dynamic id
    consumed,           \* history: the block records read, as they stood in the stream
    stats,              \* the heap of BlockStatistics objects (pointer = index, 0 = nullptr)
    per_thread_statistics,    \* local StatsMap of the section
    per_thread_statistics_cs, \* local CsStatsMap of the section
    parent_statistics,  \* local PerThreadStats parent_statistics
    frame_statistics,   \* local PerThreadStats frame_statistics
    joinOrder,          \* statistics_threads, as the thread ids in spawn order
    pending,            \* thread ids whose statistics worker has not run yet
    joined,             \* local j of the join / roots loop
    cancelled,          \* history: an external writer stored a negative progress
    window,             \* encode's begin_time / end_time arguments
    ranges,             \* encode's block_ranges
    encTime,            \* encode's locals beginTime / endTime
    total,              \* encode's local total (BlocksMemoryAndCount)
    encI,               \* encode's local i
    encOrder,           \* the iteration order of `trees` during encode
    encPos,             \* how many entries of `trees` the running loop has visited
    out                 \* what encode wrote to the output stream

hdrVars  == <<signature, version, header, hdrIn>>
descVars == <<descriptors, descI>>
treeVars == <<blocks, poolI, read_number, threshold, blocks_counter, threaded_trees,
              thread_id, sections, identification_table, consumed>>
statVars == <<stats, per_thread_statistics, per_thread_statistics_cs,
              parent_statistics, frame_statistics>>
rootVars == <<joinOrder, pending, joined>>
encVars  == <<window, ranges, encTime, total, encI, encOrder, encPos, out>>
vars == <<op, pc, progress, result, err, eof, bytesRead, hdrVars, gather_statistics,
          descVars, treeVars, statVars, rootVars, cancelled, encVars>>

(***************************************************************************)
(* Program constants                                                       *)
(***************************************************************************)
PROFILER_SIGNATURE == 1164014457
EASY_VERSION_INT(v_major, v_minor, v_patch) == v_major * 16777216 + v_minor * 65536 + v_patch
MIN_COMPATIBLE_VERSION == EASY_VERSION_INT(0, 1, 0)
EASY_V_100 == EASY_VERSION_INT(1, 0, 0)
EASY_V_130 == EASY_VERSION_INT(1, 3, 0)
EASY_V_200 == EASY_VERSION_INT(2, 0, 0)
EASY_CURRENT_VERSION == EASY_VERSION_INT(2, 1, 0)
TIME_FACTOR == 1000000000
MAX_DEPTH == 254

\* timestamp_t is an unsigned 64-bit integer: durations and their sums wrap.
\* The model keeps the modular arithmetic with a word TLC's integers can hold.
TimestampModulus == 1073741824

(***************************************************************************)
(* Helpers                                                                 *)
(***************************************************************************)
Min(a, b) == IF a < b THEN a ELSE b
Max_second(a, b) == b
Max(a, b) == IF a > b THEN a ELSE b
Range(s) == {s[k] : k \in 1..Len(s)}

isCompatibleVersion_skip(_version) == TRUE
isCompatibleVersion(_version) == _version >= MIN_COMPATIBLE_VERSION

\* update_progress / update_progress_write: exchange, and report a negative old value
update_progress_ok(oldprogress) == oldprogress >= 0

EmptyHeader ==
    [pid |-> 0, cpu_frequency |-> 0, begin_time |-> 0, end_time |-> 0,
     memory_size |-> 0, descriptors_memory_size |-> 0,
     total_blocks_number |-> 0, total_descriptors_number |-> 0]

\* conversion_factor: TIME_FACTOR / cpu_frequency as a double; the frequencies of
\* the model divide TIME_FACTOR, so the quotient and the products are exact.
conversion_factor(cpu_frequency) ==
    IF cpu_frequency # 0 THEN TIME_FACTOR \div cpu_frequency ELSE 1

EASY_CONVERT_TO_NANO(t, cpu_frequency) ==
    IF cpu_frequency # 0 THEN t * conversion_factor(cpu_frequency) ELSE t

(***************************************************************************)
(* Header layouts                                                          *)
(***************************************************************************)
readHeader_v1(in, ver) ==
    LET pidBytes == IF ver > EASY_V_100 THEN (IF ver < EASY_V_130 THEN 4 ELSE 8) ELSE 0
        h0 == [EmptyHeader EXCEPT !.pid = IF ver > EASY_V_100 THEN in.pid ELSE 0,
                                  !.cpu_frequency = in.cpu_frequency,
                                  !.begin_time = in.begin_time,
                                  !.end_time = in.end_time,
                                  !.total_blocks_number = in.total_blocks_number]
        b0 == pidBytes + 8 + 8 + 8 + 4
        h1 == [h0 EXCEPT !.memory_size = in.memory_size]
        h2 == [h1 EXCEPT !.total_descriptors_number = in.total_descriptors_number]
        h3 == [h2 EXCEPT !.descriptors_memory_size = in.descriptors_memory_size]
    IN  IF h0.total_blocks_number = 0 THEN [ok |-> FALSE, header |-> h0, bytes |-> b0]
        ELSE IF h1.memory_size = 0 THEN [ok |-> FALSE, header |-> h1, bytes |-> b0 + 8]
        ELSE IF h2.total_descriptors_number = 0
             THEN [ok |-> FALSE, header |-> h2, bytes |-> b0 + 12]
        ELSE IF h3.descriptors_memory_size = 0
             THEN [ok |-> FALSE, header |-> h3, bytes |-> b0 + 20]
        ELSE [ok |-> TRUE, header |-> h3, bytes |-> b0 + 20]

\* readHeader_v2 without its last check
readHeader_v2_nocount(in, ver) ==
    LET h0 == [EmptyHeader EXCEPT !.pid = in.pid,
                                  !.cpu_frequency = in.cpu_frequency,
                                  !.begin_time = in.begin_time,
                                  !.end_time = in.end_time,
                                  !.memory_size = in.memory_size]
        h1 == [h0 EXCEPT !.descriptors_memory_size = in.descriptors_memory_size]
        h2 == [h1 EXCEPT !.total_blocks_number = in.total_blocks_number]
        h3 == [h2 EXCEPT !.total_descriptors_number = in.total_descriptors_number]
    IN  IF h0.memory_size = 0 THEN [ok |-> FALSE, header |-> h0, bytes |-> 40]
        ELSE IF h1.descriptors_memory_size = 0
             THEN [ok |-> FALSE, header |-> h1, bytes |-> 48]
        ELSE IF h2.total_blocks_number = 0
             THEN [ok |-> FALSE, header |-> h2, bytes |-> 52]
        ELSE [ok |-> TRUE, header |-> h3, bytes |-> 56]

readHeader_v2(in, ver) ==
    LET h0 == [EmptyHeader EXCEPT !.pid = in.pid,
                                  !.cpu_frequency = in.cpu_frequency,
                                  !.begin_time = in.begin_time,
                                  !.end_time = in.end_time,
                                  !.memory_size = in.memory_size]
        h1 == [h0 EXCEPT !.descriptors_memory_size = in.descriptors_memory_size]
        h2 == [h1 EXCEPT !.total_blocks_number = in.total_blocks_number]
        h3 == [h2 EXCEPT !.total_descriptors_number = in.total_descriptors_number]
    IN  IF h0.memory_size = 0 THEN [ok |-> FALSE, header |-> h0, bytes |-> 40]
        ELSE IF h1.descriptors_memory_size = 0
             THEN [ok |-> FALSE, header |-> h1, bytes |-> 48]
        ELSE IF h2.total_blocks_number = 0
             THEN [ok |-> FALSE, header |-> h2, bytes |-> 52]
        ELSE IF h3.total_descriptors_number = 0
             THEN [ok |-> FALSE, header |-> h3, bytes |-> 56]
        ELSE [ok |-> TRUE, header |-> h3, bytes |-> 56]

(***************************************************************************)
(* Initial state: the caller's containers are empty, the progress cell is  *)
(* 0 and no entry point has been called yet.                               *)
(***************************************************************************)
EmptyMap == [x \in {} |-> 0]
NullDescriptor == [null |-> TRUE, id |-> 0, type |-> "Block"]

Init ==
    /\ op = "none" /\ pc = "idle" /\ progress = 0 /\ result = 0 /\ err = ""
    /\ eof = FALSE /\ bytesRead = 0
    /\ signature = 0 /\ version = 0 /\ header = EmptyHeader /\ hdrIn = EmptyHeader
    /\ gather_statistics = FALSE
    /\ descriptors = <<>> /\ descI = 0
    /\ blocks = <<>> /\ poolI = 0 /\ read_number = 0 /\ threshold = 0
    /\ blocks_counter = 0 /\ threaded_trees = EmptyMap /\ thread_id = 0
    /\ sections = 0 /\ identification_table = EmptyMap /\ consumed = <<>>
    /\ stats = <<>> /\ per_thread_statistics = EmptyMap
    /\ per_thread_statistics_cs = EmptyMap
    /\ parent_statistics = EmptyMap /\ frame_statistics = EmptyMap
    /\ joinOrder = <<>> /\ pending = {} /\ joined = 0
    /\ cancelled = ""
    /\ window = [begin_time |-> 0, end_time |-> 0, descriptors_count |-> 0,
                 descriptors_size |-> 0]
    /\ ranges = EmptyMap
    /\ encTime = [beginTime |-> 0, endTime |-> 0]
    /\ total = [usedMemorySize |-> 0, blocksCount |-> 0]
    /\ encI = 0 /\ encOrder = <<>> /\ encPos = 0
    /\ out = [written |-> FALSE, header |-> EmptyHeader, version |-> 0,
              descriptors |-> <<>>, threads |-> <<>>]

\* a failure that is logged while the entry point carries on
Return_goon(value, why) == pc' = pc /\ result' = value /\ err' = why

\* `return 0` / `return false` of the running entry point
Return(value, why) == pc' = "done" /\ result' = value /\ err' = why

(***************************************************************************)
(* fillTreesFromStream: signature, version, header                         *)
(***************************************************************************)
Start(D) ==
    /\ pc = "idle"
    /\ \E o \in D.ops, g \in D.gather :
        /\ op' = o
        /\ gather_statistics' = g
        /\ progress' = 0
        /\ IF o = "decode" /\ ~update_progress_ok(progress)
           THEN Return(0, "interrupted")
           ELSE pc' = "signature" /\ UNCHANGED <<result, err>>
    /\ UNCHANGED <<eof, bytesRead, hdrVars, descVars, treeVars, statVars, rootVars,
                   cancelled, encVars>>

ReadSignature(D) ==
    /\ pc = "signature"
    /\ \E s \in D.signatures :
        /\ signature' = s
        /\ bytesRead' = bytesRead + 4
        /\ IF s # PROFILER_SIGNATURE
           THEN Return(0, "signature")
           ELSE pc' = "version" /\ UNCHANGED <<result, err>>
    /\ UNCHANGED <<op, progress, eof, version, header, hdrIn, gather_statistics,
                   descVars, treeVars, statVars, rootVars, cancelled, encVars>>

ReadVersion(D) ==
    /\ pc = "version"
    /\ \E v \in D.versions :
        /\ version' = v
        /\ bytesRead' = bytesRead + 4
        /\ IF ~isCompatibleVersion(v)
           THEN Return(0, "version")
           ELSE pc' = "header" /\ UNCHANGED <<result, err>>
    /\ UNCHANGED <<op, progress, eof, signature, header, hdrIn, gather_statistics,
                   descVars, treeVars, statVars, rootVars, cancelled, encVars>>

ReadHeader(D) ==
    /\ pc = "header" /\ op = "decode"
    /\ \E in \in D.headers :
        LET r == IF version < EASY_V_200 THEN readHeader_v1(in, version)
                                         ELSE readHeader_v2(in, version)
        IN  /\ hdrIn' = in
            /\ header' = r.header
            /\ bytesRead' = bytesRead + r.bytes
            /\ IF ~r.ok
               THEN Return(0, "header")
               ELSE pc' = "descriptors" /\ UNCHANGED <<result, err>>
    /\ descI' = 0
    /\ UNCHANGED <<op, progress, eof, signature, version, gather_statistics,
                   descriptors, treeVars, statVars, rootVars, cancelled, encVars>>

\* readDescriptionsFromStream: the two header words of a descriptions stream
DescReadHeader(D) ==
    /\ pc = "header" /\ op = "descriptions"
    /\ \E in \in D.headers :
        LET h1 == [EmptyHeader EXCEPT !.total_descriptors_number = in.total_descriptors_number]
            h2 == [h1 EXCEPT !.descriptors_memory_size = in.descriptors_memory_size]
        IN  /\ hdrIn' = in
            /\ IF h1.total_descriptors_number = 0
               THEN header' = h1 /\ bytesRead' = bytesRead + 4 /\ Return(0, "header")
               ELSE IF h2.descriptors_memory_size = 0
               THEN header' = h2 /\ bytesRead' = bytesRead + 12 /\ Return(0, "header")
               ELSE /\ header' = h2 /\ bytesRead' = bytesRead + 12
                    /\ pc' = "descriptors" /\ UNCHANGED <<result, err>>
    /\ descI' = 0
    /\ UNCHANGED <<op, progress, eof, signature, version, gather_statistics,
                   descriptors, treeVars, statVars, rootVars, cancelled, encVars>>

\* the begin_time of the header left in ticks
begin_time_ticks == header.begin_time
begin_time == EASY_CONVERT_TO_NANO(header.begin_time, header.cpu_frequency)
end_time == EASY_CONVERT_TO_NANO(header.end_time, header.cpu_frequency)

(***************************************************************************)
(* The descriptor table.  An input is [eofAt, sz, id, type]: eofAt says    *)
(* whether the stream ends at the 2-byte size ("size"), inside the payload *)
(* ("payload") or not at all ("none").                                     *)
(***************************************************************************)
\* an iteration that reads the record and does not push it into the table
DescriptorStep_drop(in) ==
    [descriptors |-> descriptors,
     i |-> IF in.eofAt = "size" \/ in.sz = 0 THEN descI ELSE descI + in.sz,
     bytes |-> IF in.eofAt = "size" THEN 0 ELSE 2 + in.sz,
     eof |-> in.eofAt # "none", checkpoint |-> in.eofAt # "size" /\ in.sz # 0]

\* one iteration of the loop: the new table, byte count and eof flag
DescriptorStep(in) ==
    IF in.eofAt = "size"
    THEN [descriptors |-> Append(descriptors, NullDescriptor), i |-> descI,
          bytes |-> 0, eof |-> TRUE, checkpoint |-> FALSE]
    ELSE IF in.sz = 0
    THEN [descriptors |-> Append(descriptors, NullDescriptor), i |-> descI,
          bytes |-> 2, eof |-> FALSE, checkpoint |-> FALSE]
    ELSE [descriptors |-> Append(descriptors, [null |-> FALSE, id |-> in.id, type |-> in.type]),
          i |-> descI + in.sz,
          bytes |-> IF in.eofAt = "payload" THEN 2 + in.sz - 1 ELSE 2 + in.sz,
          eof |-> in.eofAt = "payload", checkpoint |-> TRUE]

ReadDescriptor(D) ==
    /\ pc = "descriptors" /\ op = "decode"
    /\ ~eof /\ Len(descriptors) < header.total_descriptors_number
    /\ \E in \in D.descs :
        LET r == DescriptorStep(in)
        IN  /\ descriptors' = r.descriptors
            /\ descI' = r.i
            /\ bytesRead' = bytesRead + r.bytes
            /\ eof' = r.eof
            /\ IF r.checkpoint
               THEN /\ progress' = (15 * r.i) \div header.descriptors_memory_size
                    /\ IF ~update_progress_ok(progress)
                       THEN Return(0, "interrupted")
                       ELSE UNCHANGED <<pc, result, err>>
               ELSE UNCHANGED <<progress, pc, result, err>>
    /\ UNCHANGED <<op, hdrVars, gather_statistics, treeVars, statVars, rootVars,
                   cancelled, encVars>>

DescReadDescriptor(D) ==
    /\ pc = "descriptors" /\ op = "descriptions"
    /\ ~eof /\ Len(descriptors) < header.total_descriptors_number
    /\ \E in \in D.descs :
        LET r == DescriptorStep(in)
        IN  /\ descriptors' = r.descriptors
            /\ descI' = r.i
            /\ bytesRead' = bytesRead + r.bytes
            /\ eof' = r.eof
            /\ IF r.checkpoint
               THEN /\ progress' = (100 * r.i) \div header.descriptors_memory_size
                    /\ IF ~update_progress_ok(progress)
                       THEN Return(0, "interrupted")
                       ELSE UNCHANGED <<pc, result, err>>
               ELSE UNCHANGED <<progress, pc, result, err>>
    /\ UNCHANGED <<op, hdrVars, gather_statistics, treeVars, statVars, rootVars,
                   cancelled, encVars>>

\* return !descriptors.empty();
DescReturn ==
    /\ pc = "descriptors" /\ op = "descriptions"
    /\ eof \/ Len(descriptors) >= header.total_descriptors_number
    /\ Return(IF descriptors # <<>> THEN 1 ELSE 0, "")
    /\ UNCHANGED <<op, progress, eof, bytesRead, hdrVars, gather_statistics, descVars,
                   treeVars, statVars, rootVars, cancelled, encVars>>

\* the descriptor loop of fillTreesFromStream is left: the block pool is set up
DescriptorsDone ==
    /\ pc = "descriptors" /\ op = "decode"
    /\ eof \/ Len(descriptors) >= header.total_descriptors_number
    /\ poolI' = 0 /\ read_number' = 0 /\ blocks_counter' = 0
    /\ pc' = "thread"
    /\ UNCHANGED <<op, progress, result, err, eof, bytesRead, hdrVars, gather_statistics,
                   descVars, blocks, threshold, threaded_trees, thread_id, sections,
                   identification_table, consumed, statVars, rootVars, cancelled, encVars>>

(***************************************************************************)
(* Blocks, thread roots and statistics objects                             *)
(***************************************************************************)
\* ~0U, the "no parent" block index
NoParent == 0 - 1

\* blocks[k] of the code
Blk(bs, k) == bs[k + 1]

\* BaseBlockData::duration(): end - begin in unsigned arithmetic
Duration(b) == (b.end - b.begin) % TimestampModulus

\* a default-constructed BlocksTree pointing at a record of the pool
NewBlocksTree(kind, id, begin, end, name, sz) ==
    [kind |-> kind, id |-> id, begin |-> begin, end |-> end, name |-> name, sz |-> sz,
     children |-> <<>>, depth |-> 0,
     per_parent_stats |-> 0, per_frame_stats |-> 0, per_thread_stats |-> 0]

\* a default-constructed BlocksTreeRoot
NewBlocksTreeRoot ==
    [children |-> <<>>, sync |-> <<>>, events |-> <<>>, thread_name |-> "",
     wait_time |-> 0, profiled_time |-> 0, frames_number |-> 0, blocks_number |-> 0,
     depth |-> 0, thread_id |-> 0]

\* BlockStatistics(duration, block_index, parent_index)
NewBlockStatistics(duration, block_index, parent_index) ==
    [calls_number |-> 1, total_duration |-> duration, total_children_duration |-> 0,
     max_duration_block |-> block_index, min_duration_block |-> block_index,
     parent_block |-> parent_index]

RECURSIVE ChildrenDuration(_, _, _)
ChildrenDuration(bs, children, k) ==
    IF k > Len(children) THEN 0
    ELSE (Duration(Blk(bs, children[k])) + ChildrenDuration(bs, children, k + 1))
             % TimestampModulus

\* update_statistics whose comparisons are not strict
update_statistics_ties(S, map, key, cur, cur_index, parent_index, bs, calc) ==
    IF key \in DOMAIN map
    THEN [stats |-> [S EXCEPT ![map[key]] =
                       [@ EXCEPT !.calls_number = @ + 1,
                                 !.total_duration = (@ + Duration(cur)) % TimestampModulus,
                                 !.total_children_duration =
                                     (@ + (IF calc THEN ChildrenDuration(bs, cur.children, 1)
                                           ELSE 0)) % TimestampModulus,
                                 !.max_duration_block =
                                     IF Duration(cur) >= Duration(Blk(bs, @))
                                     THEN cur_index ELSE @,
                                 !.min_duration_block =
                                     IF Duration(cur) <= Duration(Blk(bs, @))
                                     THEN cur_index ELSE @]],
          map |-> map, ptr |-> map[key]]
    ELSE [stats |-> Append(S, [NewBlockStatistics(Duration(cur), cur_index, parent_index)
                               EXCEPT !.total_children_duration =
                                   IF calc THEN ChildrenDuration(bs, cur.children, 1) ELSE 0]),
          map |-> (key :> (Len(S) + 1)) @@ map,
          ptr |-> Len(S) + 1]

\* update_statistics with the addition to total_duration left out on the
\* existing-key path
update_statistics_noadd(S, map, key, cur, cur_index, parent_index, bs, calc) ==
    IF key \in DOMAIN map
    THEN [stats |-> [S EXCEPT ![map[key]] =
                       [@ EXCEPT !.calls_number = @ + 1,
                                 !.total_children_duration =
                                     (@ + (IF calc THEN ChildrenDuration(bs, cur.children, 1)
                                           ELSE 0)) % TimestampModulus]],
          map |-> map, ptr |-> map[key]]
    ELSE [stats |-> Append(S, [NewBlockStatistics(Duration(cur), cur_index, parent_index)
                               EXCEPT !.total_children_duration =
                                   IF calc THEN ChildrenDuration(bs, cur.children, 1) ELSE 0]),
          map |-> (key :> (Len(S) + 1)) @@ map,
          ptr |-> Len(S) + 1]

\* update_statistics (both overloads: the key is the id, or the name for a
\* context switch).  S is the heap of statistics objects, map the StatsMap.
update_statistics(S, map, key, cur, cur_index, parent_index, bs, calc) ==
    IF key \in DOMAIN map
    THEN [stats |-> [S EXCEPT ![map[key]] =
                       [@ EXCEPT !.calls_number = @ + 1,
                                 !.total_duration = (@ + Duration(cur)) % TimestampModulus,
                                 !.total_children_duration =
                                     (@ + (IF calc THEN ChildrenDuration(bs, cur.children, 1)
                                           ELSE 0)) % TimestampModulus,
                                 !.max_duration_block =
                                     IF Duration(cur) > Duration(Blk(bs, @))
                                     THEN cur_index ELSE @,
                                 !.min_duration_block =
                                     IF Duration(cur) < Duration(Blk(bs, @))
                                     THEN cur_index ELSE @]],
          map |-> map, ptr |-> map[key]]
    ELSE [stats |-> Append(S, [NewBlockStatistics(Duration(cur), cur_index, parent_index)
                               EXCEPT !.total_children_duration =
                                   IF calc THEN ChildrenDuration(bs, cur.children, 1) ELSE 0]),
          map |-> (key :> (Len(S) + 1)) @@ map,
          ptr |-> Len(S) + 1]

(***************************************************************************)
(* Tree reconstruction (fillTreesFromStream, "Find children")              *)
(***************************************************************************)
\* the backward scan with a strict comparison
RECURSIVE LowerPos_strict(_, _, _, _)
LowerPos_strict(bs, children, p, mt0) ==
    IF p >= 1 /\ mt0 < Blk(bs, children[p]).begin
    THEN LowerPos_strict(bs, children, p - 1, mt0)
    ELSE p

\* for (; rlower1 != rend && mt0 <= blocks[*rlower1].node->begin(); ++rlower1);
\* p is the 1-based position rlower1 points at (0 = rend); the result is the
\* number of root children that stay
RECURSIVE LowerPos(_, _, _, _)
LowerPos(bs, children, p, mt0) ==
    IF p >= 1 /\ mt0 <= Blk(bs, children[p]).begin
    THEN LowerPos(bs, children, p - 1, mt0)
    ELSE p

\* the depth of the last child instead of the greatest
MaxChildDepth_last(bs, children, k, depth) ==
    IF children = <<>> THEN depth ELSE Blk(bs, children[Len(children)]).depth

\* the loops over tree.children: tree.depth = max child.depth
RECURSIVE MaxChildDepth(_, _, _, _)
MaxChildDepth(bs, children, k, depth) ==
    IF k > Len(children) THEN depth
    ELSE MaxChildDepth(bs, children, k + 1,
                       IF depth < Blk(bs, children[k]).depth
                       THEN Blk(bs, children[k]).depth ELSE depth)

\* "Gather statistic within parent": per_parent_stats of every moved child
RECURSIVE ParentStatsFold(_, _, _, _, _, _)
ParentStatsStep(u, bs, children, k, block_index) ==
    ParentStatsFold(u.stats, u.map, [bs EXCEPT ![children[k] + 1].per_parent_stats = u.ptr],
                    children, k + 1, block_index)

ParentStatsFold(S, map, bs, children, k, block_index) ==
    IF k > Len(children) THEN [stats |-> S, map |-> map, blocks |-> bs]
    ELSE ParentStatsStep(update_statistics(S, map, Blk(bs, children[k]).id,
                                           Blk(bs, children[k]), children[k],
                                           block_index, bs, TRUE),
                         bs, children, k, block_index)

\* the stack depth a block may not reach
DepthLimit_low == MAX_DEPTH - 1
DepthLimit == MAX_DEPTH

\* whether the descriptor table has a usable entry for a block id
DescriptorPresent_nonull(id) == id < header.total_descriptors_number
DescriptorPresent(id) ==
    /\ id < header.total_descriptors_number
    /\ ~descriptors[id + 1].null

\* if (i + sz > memory_size): the record would overrun the pool
PoolOverrun_off(i, sz) == i + sz > header.memory_size + 1
PoolOverrun(i, sz) == i + sz > header.memory_size

(***************************************************************************)
(* The body of the block loop for a record that is attached                *)
(* (lines 830-932), in the order of the code.  Each stage hands its        *)
(* results to the next; the last returns the new containers and whether    *)
(* the stack depth check passed.                                           *)
(***************************************************************************)
\* lines 922-932: the block joins the root's children; per-thread statistics
AttachStats(dyn, bs, root, S, parent, pts) ==
    [ok |-> TRUE,
     blocks |-> [bs EXCEPT ![blocks_counter + 1].per_thread_stats = pts.ptr],
     root |-> root, descriptors |-> dyn.descriptors, idtable |-> dyn.idtable,
     stats |-> pts.stats, parent |-> parent, perthread |-> pts.map]

AttachRoot(in, dyn, bs, root, S, parent) ==
    AttachStats(dyn, bs,
                [root EXCEPT !.blocks_number = @ + 1,
                             !.children = Append(@, blocks_counter),
                             !.events = IF descriptors[in.id + 1].type # "Block"
                                        THEN Append(@, blocks_counter) ELSE @],
                S, parent,
                IF gather_statistics
                THEN update_statistics(S, per_thread_statistics, dyn.id,
                                       Blk(bs, blocks_counter), blocks_counter, NoParent,
                                       bs, TRUE)
                ELSE [stats |-> S, map |-> per_thread_statistics, ptr |-> 0])

\* lines 896-919: tree.depth, and the stack depth check
AttachDepth_noinc(in, dyn, pps, root, parent, maxd) ==
    IF maxd = DepthLimit
    THEN [ok |-> FALSE,
          blocks |-> [pps.blocks EXCEPT ![blocks_counter + 1].depth = maxd],
          root |-> root, descriptors |-> dyn.descriptors, idtable |-> dyn.idtable,
          stats |-> pps.stats, parent |-> parent, perthread |-> per_thread_statistics]
    ELSE AttachRoot(in, dyn, [pps.blocks EXCEPT ![blocks_counter + 1].depth = maxd],
                    root, pps.stats, parent)

AttachDepth(in, dyn, pps, root, parent, maxd) ==
    IF maxd = DepthLimit
    THEN [ok |-> FALSE,
          blocks |-> [pps.blocks EXCEPT ![blocks_counter + 1].depth = maxd],
          root |-> root, descriptors |-> dyn.descriptors, idtable |-> dyn.idtable,
          stats |-> pps.stats, parent |-> parent, perthread |-> per_thread_statistics]
    ELSE AttachRoot(in, dyn, [pps.blocks EXCEPT ![blocks_counter + 1].depth = maxd + 1],
                    root, pps.stats, parent)

\* the statistics branch without the depth update of lines 891-892
AttachParent_nodepth(in, dyn, pps, root, moved) ==
    AttachDepth(in, dyn, pps, root, (thread_id :> pps.map) @@ parent_statistics, 0)

AttachParent(in, dyn, pps, root, moved) ==
    AttachDepth(in, dyn, pps, root, (thread_id :> pps.map) @@ parent_statistics,
                MaxChildDepth(pps.blocks, moved, 1, 0))

\* the loop over the moved children without per_parent_statistics.clear()
AttachMoved_noclear(in, dyn, bs, root, moved) ==
    IF gather_statistics
    THEN AttachParent(in, dyn,
                      ParentStatsFold(stats,
                                      IF thread_id \in DOMAIN parent_statistics
                                      THEN parent_statistics[thread_id] ELSE EmptyMap,
                                      bs, moved, 1, blocks_counter),
                      root, moved)
    ELSE AttachDepth(in, dyn, [stats |-> stats, map |-> EmptyMap, blocks |-> bs], root,
                     parent_statistics, MaxChildDepth(bs, moved, 1, 0))

\* lines 877-903: the loop over the moved children
AttachMoved(in, dyn, bs, root, moved) ==
    IF gather_statistics
    THEN AttachParent(in, dyn, ParentStatsFold(stats, EmptyMap, bs, moved, 1, blocks_counter),
                      root, moved)
    ELSE AttachDepth(in, dyn, [stats |-> stats, map |-> EmptyMap, blocks |-> bs], root,
                     parent_statistics, MaxChildDepth(bs, moved, 1, 0))

\* "Find children" that copies the run into the new node and erases nothing
AttachChildren_copy(in, dyn, bs, root, absorb, keep) ==
    IF absorb
    THEN AttachMoved(in, dyn,
                     [bs EXCEPT ![blocks_counter + 1].children =
                                    SubSeq(root.children, keep + 1, Len(root.children))],
                     root,
                     SubSeq(root.children, keep + 1, Len(root.children)))
    ELSE AttachRoot(in, dyn, bs, root, stats, parent_statistics)

\* lines 859-875: "Find children"; keep is the number of root children that stay
AttachChildren(in, dyn, bs, root, absorb, keep) ==
    IF absorb
    THEN AttachMoved(in, dyn,
                     [bs EXCEPT ![blocks_counter + 1].children =
                                    SubSeq(root.children, keep + 1, Len(root.children))],
                     [root EXCEPT !.children = SubSeq(@, 1, keep)],
                     SubSeq(root.children, keep + 1, Len(root.children)))
    ELSE AttachRoot(in, dyn, bs, root, stats, parent_statistics)

\* "Find children" with the backward scan started at the last root child
AttachFind_fromlast(in, dyn, bs, root, t_begin) ==
    AttachChildren(in, dyn, bs, root,
                   /\ root.children # <<>>
                   /\ t_begin < Blk(bs, root.children[Len(root.children)]).end,
                   IF root.children # <<>>
                   THEN LowerPos(bs, root.children, Len(root.children), t_begin)
                   ELSE 0)

AttachFind(in, dyn, bs, root, t_begin) ==
    AttachChildren(in, dyn, bs, root,
                   /\ root.children # <<>>
                   /\ t_begin < Blk(bs, root.children[Len(root.children)]).end,
                   IF root.children # <<>>
                   THEN LowerPos(bs, root.children, Len(root.children) - 1, t_begin)
                   ELSE 0)

\* lines 835-857: the id of a block with a runtime name
DynamicId_fresh(in) ==
    IF in.name = ""
    THEN [id |-> in.id, idtable |-> identification_table, descriptors |-> descriptors]
    ELSE [id |-> Len(descriptors),
          idtable |-> (in.name :> Len(descriptors)) @@ identification_table,
          descriptors |-> Append(descriptors, descriptors[in.id + 1])]
DynamicId(in) ==
    IF in.name = ""
    THEN [id |-> in.id, idtable |-> identification_table, descriptors |-> descriptors]
    ELSE IF in.name \in DOMAIN identification_table
    THEN [id |-> identification_table[in.name], idtable |-> identification_table,
          descriptors |-> descriptors]
    ELSE [id |-> Len(descriptors),
          idtable |-> (in.name :> Len(descriptors)) @@ identification_table,
          descriptors |-> Append(descriptors, descriptors[in.id + 1])]

AttachTree(in, dyn, t_begin, t_end) ==
    AttachFind(in, dyn,
               Append(blocks, NewBlocksTree("block", dyn.id, t_begin, t_end, in.name, in.sz)),
               threaded_trees[thread_id], t_begin)

AttachBlock(in, t_begin, t_end) == AttachTree(in, DynamicId(in), t_begin, t_end)

(***************************************************************************)
(* The per-thread sections.  Inputs carry eofAt like the descriptors:      *)
(* "none", or the read at which the stream ends.                           *)
(***************************************************************************)
thread_id_t_size == IF version < EASY_V_130 THEN 4 ELSE 8

\* while (!inFile.eof()) { read thread_id; root = threaded_trees[thread_id];
\* read the name and the number of context switches }
ReadThreadHeader(D) ==
    /\ ~eof
    /\ pc = "thread" \/ (pc = "blocks" /\ read_number >= threshold)
    /\ \E in \in D.threadIns :
        /\ sections < D.maxSections \/ in.eofAt = "thread_id"
        /\ IF in.eofAt = "thread_id"
           THEN /\ eof' = TRUE /\ pc' = "thread"
                /\ UNCHANGED <<bytesRead, threaded_trees, thread_id, threshold, sections,
                               per_thread_statistics_cs>>
           ELSE LET old == IF in.thread_id \in DOMAIN threaded_trees
                           THEN threaded_trees[in.thread_id] ELSE NewBlocksTreeRoot
                    root == IF in.name # "" THEN [old EXCEPT !.thread_name = in.name]
                            ELSE old
                IN  /\ thread_id' = in.thread_id
                    /\ threaded_trees' = (in.thread_id :> root) @@ threaded_trees
                    /\ eof' = (in.eofAt = "count")
                    /\ threshold' = read_number + (IF in.eofAt = "count" THEN 0 ELSE in.count)
                    /\ bytesRead' = bytesRead + thread_id_t_size + 2
                                    + (IF in.name # "" THEN 1 ELSE 0)
                                    + (IF in.eofAt = "count" THEN 0 ELSE 4)
                    /\ sections' = sections + 1
                    /\ per_thread_statistics_cs' = EmptyMap
                    /\ pc' = "cswitches"
    /\ UNCHANGED <<op, progress, result, err, hdrVars, gather_statistics, descVars,
                   blocks, poolI, read_number, blocks_counter, identification_table,
                   consumed, stats, per_thread_statistics, parent_statistics,
                   frame_statistics, rootVars, cancelled, encVars>>

\* one iteration of the context-switch loop (lines 712-769)
ReadCSwitch(D) ==
    /\ pc = "cswitches" /\ ~eof /\ read_number < threshold
    /\ \E in \in D.csIns :
        LET sized == in.eofAt # "size" /\ in.sz # 0
            stored == sized /\ ~PoolOverrun(poolI, in.sz)
            t_begin0 == EASY_CONVERT_TO_NANO(in.begin, header.cpu_frequency)
            t_end == EASY_CONVERT_TO_NANO(in.end, header.cpu_frequency)
            attach == stored /\ t_end > begin_time
            t_begin == IF t_begin0 < begin_time THEN begin_time ELSE t_begin0
            block_index == blocks_counter
            tree0 == NewBlocksTree("cs", 0, t_begin, t_end, in.name, in.sz)
            bs0 == Append(blocks, tree0)
            root == threaded_trees[thread_id]
            root1 == [root EXCEPT !.wait_time = (@ + Duration(tree0)) % TimestampModulus,
                                  !.sync = Append(@, block_index)]
            u == IF gather_statistics
                 THEN update_statistics(stats, per_thread_statistics_cs, in.name, tree0,
                                        block_index, NoParent, bs0, TRUE)
                 ELSE [stats |-> stats, map |-> per_thread_statistics_cs, ptr |-> 0]
            why == IF ~sized THEN "cs_size" ELSE IF ~stored THEN "cs_mem" ELSE ""
            i1 == IF stored THEN poolI + in.sz ELSE poolI
        IN  /\ read_number' = read_number + 1
            /\ eof' = (in.eofAt # "none")
            /\ bytesRead' = bytesRead + (IF in.eofAt = "size" THEN 0
                                         ELSE IF ~stored THEN 2
                                         ELSE IF in.eofAt = "payload" THEN 2 + in.sz - 1
                                         ELSE 2 + in.sz)
            /\ poolI' = i1
            /\ consumed' = Append(consumed,
                   [kind |-> "cs", thread |-> thread_id, id |-> 0, begin |-> in.begin,
                    end |-> in.end, name |-> in.name, sz |-> in.sz, at |-> poolI,
                    stored |-> stored, index |-> IF attach THEN block_index ELSE NoParent])
            /\ IF attach
               THEN /\ blocks' = [bs0 EXCEPT ![block_index + 1].per_thread_stats = u.ptr]
                    /\ blocks_counter' = blocks_counter + 1
                    /\ threaded_trees' = [threaded_trees EXCEPT ![thread_id] = root1]
                    /\ stats' = u.stats
                    /\ per_thread_statistics_cs' = u.map
               ELSE UNCHANGED <<blocks, blocks_counter, threaded_trees, stats,
                                per_thread_statistics_cs>>
            /\ IF why # ""
               THEN Return(0, why) /\ UNCHANGED progress
               ELSE /\ progress' = 20 + (70 * i1) \div header.memory_size
                    /\ IF ~update_progress_ok(progress)
                       THEN Return(0, "interrupted")
                       ELSE UNCHANGED <<pc, result, err>>
    /\ UNCHANGED <<op, hdrVars, gather_statistics, descVars, threshold, thread_id,
                   sections, identification_table, per_thread_statistics,
                   parent_statistics, frame_statistics, rootVars, cancelled, encVars>>

\* after the context switches: StatsMap per_thread_statistics; read the number
\* of blocks of the section (lines 771-778)
ReadBlockCount(D) ==
    /\ pc = "cswitches" /\ ~eof /\ read_number >= threshold
    /\ \E in \in D.countIns :
        /\ eof' = (in.eofAt = "count")
        /\ threshold' = read_number + (IF in.eofAt = "count" THEN 0 ELSE in.count)
        /\ bytesRead' = bytesRead + (IF in.eofAt = "count" THEN 0 ELSE 4)
    /\ per_thread_statistics' = EmptyMap
    /\ pc' = "blocks"
    /\ UNCHANGED <<op, progress, result, err, hdrVars, gather_statistics, descVars,
                   blocks, poolI, read_number, blocks_counter, threaded_trees, thread_id,
                   sections, identification_table, consumed, stats,
                   per_thread_statistics_cs, parent_statistics, frame_statistics,
                   rootVars, cancelled, encVars>>

\* one iteration of the block loop (lines 779-939)
ReadBlock(D) ==
    /\ pc = "blocks" /\ ~eof /\ read_number < threshold
    /\ \E in \in D.blockIns :
        LET sized == in.eofAt # "size" /\ in.sz # 0
            stored == sized /\ ~PoolOverrun(poolI, in.sz)
            present == stored /\ DescriptorPresent(in.id)
            t_begin0 == EASY_CONVERT_TO_NANO(in.begin, header.cpu_frequency)
            t_end == EASY_CONVERT_TO_NANO(in.end, header.cpu_frequency)
            attach == present /\ t_end >= begin_time
            t_begin == IF t_begin0 < begin_time THEN begin_time ELSE t_begin0
            a == AttachBlock(in, t_begin, t_end)
            why == IF ~sized THEN "blk_size"
                   ELSE IF ~stored THEN "blk_mem"
                   ELSE IF in.id >= header.total_descriptors_number THEN "bad_id"
                   ELSE IF ~present THEN "null_desc"
                   ELSE IF attach /\ ~a.ok THEN "depth"
                   ELSE ""
            i1 == IF stored THEN poolI + in.sz ELSE poolI
        IN  /\ read_number' = read_number + 1
            /\ eof' = (in.eofAt # "none")
            /\ bytesRead' = bytesRead + (IF in.eofAt = "size" THEN 0
                                         ELSE IF ~stored THEN 2
                                         ELSE IF in.eofAt = "payload" THEN 2 + in.sz - 1
                                         ELSE 2 + in.sz)
            /\ poolI' = i1
            /\ consumed' = Append(consumed,
                   [kind |-> "block", thread |-> thread_id, id |-> in.id,
                    begin |-> in.begin, end |-> in.end, name |-> in.name, sz |-> in.sz,
                    at |-> poolI, stored |-> stored,
                    index |-> IF attach /\ a.ok THEN blocks_counter ELSE NoParent])
            /\ IF attach
               THEN /\ blocks' = a.blocks
                    /\ blocks_counter' = blocks_counter + 1
                    /\ threaded_trees' = [threaded_trees EXCEPT ![thread_id] = a.root]
                    /\ descriptors' = a.descriptors
                    /\ identification_table' = a.idtable
                    /\ stats' = a.stats
                    /\ parent_statistics' = a.parent
                    /\ per_thread_statistics' = a.perthread
               ELSE UNCHANGED <<blocks, blocks_counter, threaded_trees, descriptors,
                                identification_table, stats, parent_statistics,
                                per_thread_statistics>>
            /\ IF why # ""
               THEN Return(0, why) /\ UNCHANGED progress
               ELSE /\ progress' = 20 + (70 * i1) \div header.memory_size
                    /\ IF ~update_progress_ok(progress)
                       THEN Return(0, "interrupted")
                       ELSE UNCHANGED <<pc, result, err>>
    /\ UNCHANGED <<op, hdrVars, gather_statistics, descI, threshold, thread_id, sections,
                   per_thread_statistics_cs, frame_statistics, rootVars, cancelled,
                   encVars>>

\* the thread loop is left (end of stream): update_progress(progress, 90, _log)
Progress90 ==
    /\ eof /\ pc \in {"thread", "cswitches", "blocks"}
    /\ progress' = 90
    /\ IF ~update_progress_ok(progress)
       THEN Return(0, "interrupted")
       ELSE pc' = "roots" /\ UNCHANGED <<result, err>>
    /\ UNCHANGED <<op, eof, bytesRead, hdrVars, gather_statistics, descVars, treeVars,
                   statVars, rootVars, cancelled, encVars>>

(***************************************************************************)
(* "Gather statistics for roots" (lines 947-1051)                          *)
(***************************************************************************)
\* the orders in which a container of the ids S may be iterated
Orders(S) == {f \in [1..Cardinality(S) -> S] : \A a, b \in 1..Cardinality(S) :
                                                    f[a] = f[b] => a = b}

RECURSIVE update_statistics_recursive(_, _, _, _, _)
RECURSIVE FrameChildren(_, _, _, _, _, _, _)
\* _current.per_frame_stats = update_statistics(...), then the loop over the children
RecursiveChildren(u, bs, current_index, parent_index) ==
    FrameChildren(u.stats, u.map,
                  [bs EXCEPT ![current_index + 1].per_frame_stats = u.ptr],
                  u.ptr, Blk(bs, current_index).children, 1, parent_index)

\* the recursive walk with _calculate_children left at its default
update_statistics_recursive_calc(S, map, bs, current_index, parent_index) ==
    RecursiveChildren(update_statistics(S, map, Blk(bs, current_index).id,
                                        Blk(bs, current_index), current_index,
                                        parent_index, bs, TRUE),
                      bs, current_index, parent_index)

\* update_statistics_recursive(_stats_map, _current, _current_index, _parent_index, _blocks)
update_statistics_recursive(S, map, bs, current_index, parent_index) ==
    RecursiveChildren(update_statistics(S, map, Blk(bs, current_index).id,
                                        Blk(bs, current_index), current_index,
                                        parent_index, bs, FALSE),
                      bs, current_index, parent_index)

FrameChildNext(r, ptr, children, k, parent_index) ==
    FrameChildren(r.stats, r.map, r.blocks, ptr, children, k + 1, parent_index)

\* its loop over _current.children
FrameChildren(S, map, bs, ptr, children, k, parent_index) ==
    IF k > Len(children) THEN [stats |-> S, map |-> map, blocks |-> bs]
    ELSE FrameChildNext(
             update_statistics_recursive(
                 [S EXCEPT ![ptr].total_children_duration =
                               (@ + Duration(Blk(bs, children[k]))) % TimestampModulus],
                 map, bs, children[k], parent_index),
             ptr, children, k, parent_index)

\* the do-while over _root.sync of one frame (lines 983-997); cs_index < Len(sync)
RECURSIVE FrameCSwitches(_, _, _, _, _, _)
\* the same with the pointer stored at blocks[cs_index]
FrameCSwitchNext_pos(u, bs, sync, cs_index, child_index) ==
    IF cs_index + 1 < Len(sync)
    THEN FrameCSwitches(u.stats, u.map,
                        [bs EXCEPT ![cs_index + 1].per_frame_stats = u.ptr],
                        sync, cs_index + 1, child_index)
    ELSE [stats |-> u.stats,
          blocks |-> [bs EXCEPT ![cs_index + 1].per_frame_stats = u.ptr],
          cs_index |-> cs_index + 1]
FrameCSwitchNext(u, bs, sync, cs_index, child_index) ==
    IF cs_index + 1 < Len(sync)
    THEN FrameCSwitches(u.stats, u.map,
                        [bs EXCEPT ![sync[cs_index + 1] + 1].per_frame_stats = u.ptr],
                        sync, cs_index + 1, child_index)
    ELSE [stats |-> u.stats,
          blocks |-> [bs EXCEPT ![sync[cs_index + 1] + 1].per_frame_stats = u.ptr],
          cs_index |-> cs_index + 1]

FrameCSwitches(S, map, bs, sync, cs_index, child_index) ==
    IF Blk(bs, sync[cs_index + 1]).end < Blk(bs, child_index).begin
    THEN IF cs_index + 1 < Len(sync)
         THEN FrameCSwitches(S, map, bs, sync, cs_index + 1, child_index)
         ELSE [stats |-> S, blocks |-> bs, cs_index |-> cs_index + 1]
    ELSE IF Blk(bs, sync[cs_index + 1]).begin > Blk(bs, child_index).end
    THEN [stats |-> S, blocks |-> bs, cs_index |-> cs_index]
    ELSE FrameCSwitchNext(
             update_statistics(S, map, Blk(bs, sync[cs_index + 1]).name,
                               Blk(bs, sync[cs_index + 1]), cs_index, child_index, bs, TRUE),
             bs, sync, cs_index, child_index)

\* the body of a statistics worker: the loop over _root.children (lines 970-1005)
RECURSIVE RootFrames(_, _, _, _, _, _, _)
\* lines 999-1002, and the next frame
RootFrameEnd(c, pmap, fmap, root, k) ==
    RootFrames(c.stats, pmap, fmap, c.blocks,
               [root EXCEPT
                  !.depth = IF @ < Blk(c.blocks, root.children[k]).depth
                            THEN Blk(c.blocks, root.children[k]).depth ELSE @,
                  !.profiled_time = (@ + Duration(Blk(c.blocks, root.children[k])))
                                    % TimestampModulus],
               k + 1, c.cs_index)

\* lines 983-997
RootFrameCS(f, pmap, root, k, cs_index) ==
    RootFrameEnd(IF cs_index < Len(root.sync)
                 THEN FrameCSwitches(f.stats, EmptyMap, f.blocks, root.sync, cs_index,
                                     root.children[k])
                 ELSE [stats |-> f.stats, blocks |-> f.blocks, cs_index |-> cs_index],
                 pmap, f.map, root, k)

\* lines 980-981
RootFrameStats(u, bs, root, k, cs_index) ==
    RootFrameCS(update_statistics_recursive(
                    u.stats, EmptyMap,
                    [bs EXCEPT ![root.children[k] + 1].per_parent_stats = u.ptr],
                    root.children[k], root.children[k]),
                u.map, root, k, cs_index)

RootFrames(S, pmap, fmap, bs, root, k, cs_index) ==
    IF k > Len(root.children)
    THEN [stats |-> S, pmap |-> pmap, fmap |-> fmap, blocks |-> bs,
          root |-> [root EXCEPT !.depth = @ + 1]]
    ELSE RootFrameStats(
             update_statistics(S, pmap, Blk(bs, root.children[k]).id,
                               Blk(bs, root.children[k]), root.children[k], NoParent,
                               bs, TRUE),
             bs,
             IF descriptors[Blk(bs, root.children[k]).id + 1].type = "Block"
             THEN [root EXCEPT !.frames_number = @ + 1] ELSE root,
             k, cs_index)

\* the loop over root.children without statistics (lines 1030-1043)
RECURSIVE RootFramesPlain(_, _)
RootFramesPlain(root, k) ==
    IF k > Len(root.children) THEN [root EXCEPT !.depth = @ + 1]
    ELSE RootFramesPlain(
             [root EXCEPT
                !.frames_number =
                    IF descriptors[Blk(blocks, root.children[k]).id + 1].type = "Block"
                    THEN @ + 1 ELSE @,
                !.depth = IF @ < Blk(blocks, root.children[k]).depth
                          THEN Blk(blocks, root.children[k]).depth ELSE @,
                !.profiled_time = (@ + Duration(Blk(blocks, root.children[k])))
                                  % TimestampModulus],
             k + 1)

\* the loop that starts one statistics worker per thread (lines 950-1007), or
\* the entry of the loop over threaded_trees without statistics
EnterRoots ==
    /\ pc = "roots"
    /\ \E order \in Orders(DOMAIN threaded_trees) :
        joinOrder' = order
    /\ joined' = 0
    /\ IF gather_statistics
       THEN /\ pending' = DOMAIN threaded_trees
            /\ threaded_trees' = [t \in DOMAIN threaded_trees |->
                                    [threaded_trees[t] EXCEPT !.thread_id = t]]
            /\ frame_statistics' = [t \in DOMAIN threaded_trees |->
                                      IF t \in DOMAIN frame_statistics
                                      THEN frame_statistics[t] ELSE EmptyMap]
            /\ parent_statistics' = [t \in DOMAIN threaded_trees |-> EmptyMap]
       ELSE UNCHANGED <<pending, threaded_trees, frame_statistics, parent_statistics>>
    /\ pc' = "join"
    /\ UNCHANGED <<op, progress, result, err, eof, bytesRead, hdrVars, gather_statistics,
                   descVars, blocks, poolI, read_number, threshold, blocks_counter,
                   thread_id, sections, identification_table, consumed, stats,
                   per_thread_statistics, per_thread_statistics_cs, cancelled, encVars>>

\* one statistics worker runs (the lambda of lines 963-1006)
Worker ==
    /\ pc = "join"
    /\ \E t \in pending :
        LET r == RootFrames(stats, parent_statistics[t], EmptyMap, blocks,
                            threaded_trees[t], 1, 0)
        IN  /\ stats' = r.stats
            /\ blocks' = r.blocks
            /\ threaded_trees' = [threaded_trees EXCEPT ![t] = r.root]
            /\ parent_statistics' = [parent_statistics EXCEPT ![t] = r.pmap]
            /\ frame_statistics' = [frame_statistics EXCEPT ![t] = r.fmap]
            /\ pending' = pending \ {t}
    /\ UNCHANGED <<op, pc, progress, result, err, eof, bytesRead, hdrVars,
                   gather_statistics, descVars, poolI, read_number, threshold,
                   blocks_counter, thread_id, sections, identification_table, consumed,
                   per_thread_statistics, per_thread_statistics_cs, joinOrder, joined,
                   cancelled, encVars>>

\* thread.join(); progress.store(90 + (10 * ++j) / n)
Join ==
    /\ pc = "join" /\ gather_statistics
    /\ joined < Len(joinOrder)
    /\ joinOrder[joined + 1] \notin pending
    /\ joined' = joined + 1
    /\ progress' = 90 + (10 * (joined + 1)) \div Len(joinOrder)
    /\ UNCHANGED <<op, pc, result, err, eof, bytesRead, hdrVars, gather_statistics,
                   descVars, treeVars, statVars, joinOrder, pending, cancelled, encVars>>

\* one iteration of the loop over threaded_trees without statistics
RootPlain ==
    /\ pc = "join" /\ ~gather_statistics
    /\ joined < Len(joinOrder)
    /\ LET t == joinOrder[joined + 1]
       IN  threaded_trees' = [threaded_trees EXCEPT
               ![t] = RootFramesPlain([threaded_trees[t] EXCEPT !.thread_id = t], 1)]
    /\ joined' = joined + 1
    /\ progress' = 90 + (10 * (joined + 1)) \div Len(joinOrder)
    /\ UNCHANGED <<op, pc, result, err, eof, bytesRead, hdrVars, gather_statistics,
                   descVars, blocks, poolI, read_number, threshold, blocks_counter,
                   thread_id, sections, identification_table, consumed, statVars,
                   joinOrder, pending, cancelled, encVars>>

\* progress.store(100); return blocks_counter;
\* the return without the last store
FinalStore_nostore ==
    /\ pc = "join" /\ joined = Len(joinOrder)
    /\ Return(blocks_counter, "")
    /\ UNCHANGED <<op, progress, eof, bytesRead, hdrVars, gather_statistics, descVars,
                   treeVars, statVars, rootVars, cancelled, encVars>>

FinalStore ==
    /\ pc = "join" /\ joined = Len(joinOrder)
    /\ progress' = 100
    /\ Return(blocks_counter, "")
    /\ UNCHANGED <<op, eof, bytesRead, hdrVars, gather_statistics, descVars, treeVars,
                   statVars, rootVars, cancelled, encVars>>

(***************************************************************************)
(* writeTreesToStream (encode)                                             *)
(***************************************************************************)
\* std::lower_bound(children.begin(), children.end(), value, comp) as the
\* library computes it: the bisection over [first, first + len)
RECURSIVE LowerBoundEnd(_, _, _, _, _)
LowerBoundEnd(bs, children, first, len, value) ==
    IF len = 0 THEN first
    ELSE LET half == len \div 2
             middle == first + half
         IN  IF Blk(bs, children[middle + 1]).end < value
             THEN LowerBoundEnd(bs, children, middle + 1, len - half - 1, value)
             ELSE LowerBoundEnd(bs, children, first, half, value)

RECURSIVE LowerBoundBegin(_, _, _, _, _)
LowerBoundBegin(bs, children, first, len, value) ==
    IF len = 0 THEN first
    ELSE LET half == len \div 2
             middle == first + half
         IN  IF Blk(bs, children[middle + 1]).begin <= value
             THEN LowerBoundBegin(bs, children, middle + 1, len - half - 1, value)
             ELSE LowerBoundBegin(bs, children, first, half, value)

\* findRange(children, beginTime, endTime, getter): [begin, end) as 0-based positions
findRange(bs, children, beginTime, endTime) ==
    LET size == Len(children)
        first_it == LowerBoundEnd(bs, children, 0, size, beginTime)
        last_it == LowerBoundBegin(bs, children, 0, size, endTime)
    IN  IF /\ first_it # size
           /\ Blk(bs, children[first_it + 1]).begin <= endTime
           /\ last_it # size
           /\ Blk(bs, children[last_it + 1]).end >= beginTime
           /\ first_it <= last_it
        THEN [begin |-> first_it, end |-> last_it]
        ELSE [begin |-> size, end |-> size]

\* sizeof(SerializedBlock) + strlen(name) + 1, sizeof(SerializedCSwitch) + ...,
\* sizeof(ArbitraryValue) + data_size: the model's names are "" or one character,
\* and a value record keeps the size it was read with
NameLen(name) == IF name = "" THEN 0 ELSE 1
UsedMemorySize(b, desc) ==
    IF b.kind = "cs" THEN 24 + NameLen(b.name) + 1
    ELSE IF desc.type = "Value" THEN b.sz
    ELSE 20 + NameLen(b.name) + 1

\* calculateUsedMemoryAndBlocksCount(children, range, getter, descriptors, false)
RECURSIVE BlocksMemoryAndCount(_, _, _, _)
BlocksMemoryAndCount(bs, children, from, to) ==
    IF from >= to THEN [usedMemorySize |-> 0, blocksCount |-> 0]
    ELSE LET child == Blk(bs, children[from + 1])
             own == UsedMemorySize(child, descriptors[child.id + 1])
             sub == BlocksMemoryAndCount(bs, child.children, 0, Len(child.children))
             rest == BlocksMemoryAndCount(bs, children, from + 1, to)
         IN  [usedMemorySize |-> sub.usedMemorySize + own + rest.usedMemorySize,
              blocksCount |-> sub.blocksCount + 1 + rest.blocksCount]

\* calculateUsedMemoryAndBlocksCount(children, range, getter, descriptors, true)
RECURSIVE CSwitchesMemoryAndCount(_, _, _, _)
CSwitchesMemoryAndCount(bs, children, from, to) ==
    IF from >= to THEN [usedMemorySize |-> 0, blocksCount |-> 0]
    ELSE LET rest == CSwitchesMemoryAndCount(bs, children, from + 1, to)
         IN  [usedMemorySize |-> 24 + NameLen(Blk(bs, children[from + 1]).name) + 1
                                 + rest.usedMemorySize,
              blocksCount |-> 1 + rest.blocksCount]

\* serializeBlocks without the descent into the children
RECURSIVE serializeBlocks_flat(_, _, _, _)
serializeBlocks_flat(bs, children, from, to) ==
    IF from >= to THEN <<>>
    ELSE LET child == Blk(bs, children[from + 1])
             desc == descriptors[child.id + 1]
             rec == [kind |-> "block",
                     id |-> IF desc.type # "Value" /\ child.id # desc.id
                            THEN desc.id ELSE child.id,
                     begin |-> child.begin, end |-> child.end, name |-> child.name,
                     sz |-> UsedMemorySize(child, desc)]
         IN  <<rec>> \o serializeBlocks_flat(bs, children, from + 1, to)

\* serializeBlocks that serializes a node before its children
RECURSIVE serializeBlocks_pre(_, _, _, _)
serializeBlocks_pre(bs, children, from, to) ==
    IF from >= to THEN <<>>
    ELSE LET child == Blk(bs, children[from + 1])
             desc == descriptors[child.id + 1]
             rec == [kind |-> "block",
                     id |-> IF desc.type # "Value" /\ child.id # desc.id
                            THEN desc.id ELSE child.id,
                     begin |-> child.begin, end |-> child.end, name |-> child.name,
                     sz |-> UsedMemorySize(child, desc)]
         IN  <<rec>> \o serializeBlocks_pre(bs, child.children, 0, Len(child.children))
             \o serializeBlocks_pre(bs, children, from + 1, to)

\* serializeBlocks(output, buffer, children, range, getter, descriptors): the
\* records written, children before their parent, dynamic ids restored
RECURSIVE serializeBlocks(_, _, _, _)
serializeBlocks(bs, children, from, to) ==
    IF from >= to THEN <<>>
    ELSE LET child == Blk(bs, children[from + 1])
             desc == descriptors[child.id + 1]
             rec == [kind |-> "block",
                     id |-> IF desc.type # "Value" /\ child.id # desc.id
                            THEN desc.id ELSE child.id,
                     begin |-> child.begin, end |-> child.end, name |-> child.name,
                     sz |-> UsedMemorySize(child, desc)]
         IN  serializeBlocks(bs, child.children, 0, Len(child.children))
             \o <<rec>> \o serializeBlocks(bs, children, from + 1, to)

\* serializeContextSwitches(output, buffer, children, range, getter)
RECURSIVE serializeContextSwitches(_, _, _, _)
serializeContextSwitches(bs, children, from, to) ==
    IF from >= to THEN <<>>
    ELSE LET child == Blk(bs, children[from + 1])
         IN  <<[kind |-> "cs", id |-> 0, begin |-> child.begin, end |-> child.end,
                name |-> child.name, sz |-> 24 + NameLen(child.name) + 1]>>
             \o serializeContextSwitches(bs, children, from + 1, to)

\* serializeDescriptors(output, buffer, descriptors, descriptors_count): the loop
\* stops at the first entry whose stored id is not its index.  A null entry is
\* dereferenced by the code; nullReads says whether the id read there happens
\* to equal the index.
RECURSIVE serializeDescriptors(_, _, _, _)
serializeDescriptors(descs, i, size, nullReads) ==
    IF i >= size THEN <<>>
    ELSE LET desc == descs[i + 1]
         IN  IF (desc.null /\ ~nullReads) \/ (~desc.null /\ desc.id # i) THEN <<>>
             ELSE <<[index |-> i, id |-> i, type |-> desc.type, null |-> desc.null]>>
                  \o serializeDescriptors(descs, i + 1, size, nullReads)

\* the caller hands a decoded model to writeTreesToStream
StartEncode(D) ==
    /\ pc = "done" /\ op = "decode" /\ err = ""
    /\ \E w \in D.windows, order \in Orders(DOMAIN threaded_trees) :
        /\ window' = [begin_time |-> w.begin_time, end_time |-> w.end_time,
                      descriptors_count |-> header.total_descriptors_number,
                      descriptors_size |-> header.descriptors_memory_size]
        /\ encOrder' = order
        /\ encTime' = [beginTime |-> w.begin_time, endTime |-> w.end_time]
    /\ op' = "encode"
    /\ progress' = 0 /\ cancelled' = ""
    /\ ranges' = EmptyMap /\ encI' = 0 /\ encPos' = 0
    /\ total' = [usedMemorySize |-> 0, blocksCount |-> 0]
    /\ IF DOMAIN threaded_trees = {} \/ header.descriptors_memory_size = 0
          \/ header.total_descriptors_number = 0
       THEN Return(0, "nothing")
       ELSE pc' = "enc_ranges" /\ result' = 0 /\ err' = ""
    /\ UNCHANGED <<eof, bytesRead, hdrVars, gather_statistics, descVars, treeVars,
                   statVars, rootVars, out>>

\* one iteration of the loop that computes the ranges (lines 1417-1453).  Line
\* 1443 indexes tree.children with a position of tree.sync: past the end of
\* children the value read is arbitrary (garbage g).
EncodeRange(D) ==
    /\ pc = "enc_ranges" /\ encPos < Len(encOrder)
    /\ LET id == encOrder[encPos + 1]
           tree == threaded_trees[id]
           rb == findRange(blocks, tree.children, window.begin_time, window.end_time)
           rc == findRange(blocks, tree.sync, window.begin_time, window.end_time)
           mb == BlocksMemoryAndCount(blocks, tree.children, rb.begin, rb.end)
           mc == CSwitchesMemoryAndCount(blocks, tree.sync, rc.begin, rc.end)
           bt1 == IF mb.blocksCount # 0
                  THEN Min(encTime.beginTime, Blk(blocks, tree.children[rb.begin + 1]).begin)
                  ELSE encTime.beginTime
           et1 == IF mb.blocksCount # 0
                  THEN Max(encTime.endTime, Blk(blocks, tree.children[rb.end]).end)
                  ELSE encTime.endTime
           oobB == mc.blocksCount # 0 /\ rc.begin >= Len(tree.children)
           oobE == mc.blocksCount # 0 /\ rc.end - 1 >= Len(tree.children)
       IN  \E gb \in (IF oobB THEN D.garbage ELSE {0}),
              ge \in (IF oobE THEN D.garbage ELSE {0}) :
            LET cb == IF oobB THEN gb ELSE Blk(blocks, tree.children[rc.begin + 1]).begin
                ce == IF oobE THEN ge ELSE Blk(blocks, tree.children[rc.end]).end
            IN  /\ encTime' = [beginTime |-> IF mc.blocksCount # 0 THEN Min(bt1, cb) ELSE bt1,
                               endTime |-> IF mc.blocksCount # 0 THEN Max(et1, ce) ELSE et1]
                /\ ranges' = (id :> [blocks |-> rb, cswitches |-> rc,
                                     blocksMemoryAndCount |-> mb,
                                     cswitchesMemoryAndCount |-> mc]) @@ ranges
                /\ total' = [usedMemorySize |-> total.usedMemorySize + mb.usedMemorySize
                                                + mc.usedMemorySize,
                             blocksCount |-> total.blocksCount + mb.blocksCount
                                             + mc.blocksCount]
    /\ progress' = 15 \div (Len(encOrder) - encI)
    /\ IF ~update_progress_ok(progress)
       THEN Return(0, "interrupted") /\ UNCHANGED <<encI, encPos>>
       ELSE encI' = encI + 1 /\ encPos' = encPos + 1 /\ UNCHANGED <<pc, result, err>>
    /\ UNCHANGED <<op, eof, bytesRead, hdrVars, gather_statistics, descVars, treeVars,
                   statVars, rootVars, cancelled, window, encOrder, out>>

\* after the loop: "Nothing to save", or the header and the descriptors are
\* written (lines 1455-1485)
EncodeHeader_always ==
    /\ pc = "enc_ranges" /\ encPos = Len(encOrder)
    /\ IF FALSE
       THEN Return(0, "nothing") /\ UNCHANGED <<out, encI, encPos>>
       ELSE /\ \E nullReads \in (IF \E k \in 1..Min(Len(descriptors), window.descriptors_count) :
                                       descriptors[k].null
                                 THEN BOOLEAN ELSE {FALSE}) :
                out' = [written |-> TRUE,
                        version |-> EASY_CURRENT_VERSION,
                        header |-> [pid |-> header.pid, cpu_frequency |-> 0,
                                    begin_time |-> encTime.beginTime,
                                    end_time |-> encTime.endTime,
                                    memory_size |-> total.usedMemorySize,
                                    descriptors_memory_size |->
                                        window.descriptors_size + window.descriptors_count * 2,
                                    total_blocks_number |-> total.blocksCount,
                                    total_descriptors_number |-> window.descriptors_count],
                        descriptors |-> serializeDescriptors(descriptors, 0,
                                            Min(Len(descriptors), window.descriptors_count),
                                            nullReads),
                        threads |-> <<>>]
            /\ encI' = 0 /\ encPos' = 0
            /\ pc' = "enc_threads" /\ UNCHANGED <<result, err>>
    /\ UNCHANGED <<op, progress, eof, bytesRead, hdrVars, gather_statistics, descVars,
                   treeVars, statVars, rootVars, cancelled, window, ranges, encTime,
                   total, encOrder>>
EncodeHeader ==
    /\ pc = "enc_ranges" /\ encPos = Len(encOrder)
    /\ IF total.blocksCount = 0
       THEN Return(0, "nothing") /\ UNCHANGED <<out, encI, encPos>>
       ELSE /\ \E nullReads \in (IF \E k \in 1..Min(Len(descriptors), window.descriptors_count) :
                                       descriptors[k].null
                                 THEN BOOLEAN ELSE {FALSE}) :
                out' = [written |-> TRUE,
                        version |-> EASY_CURRENT_VERSION,
                        header |-> [pid |-> header.pid, cpu_frequency |-> 0,
                                    begin_time |-> encTime.beginTime,
                                    end_time |-> encTime.endTime,
                                    memory_size |-> total.usedMemorySize,
                                    descriptors_memory_size |->
                                        window.descriptors_size + window.descriptors_count * 2,
                                    total_blocks_number |-> total.blocksCount,
                                    total_descriptors_number |-> window.descriptors_count],
                        descriptors |-> serializeDescriptors(descriptors, 0,
                                            Min(Len(descriptors), window.descriptors_count),
                                            nullReads),
                        threads |-> <<>>]
            /\ encI' = 0 /\ encPos' = 0
            /\ pc' = "enc_threads" /\ UNCHANGED <<result, err>>
    /\ UNCHANGED <<op, progress, eof, bytesRead, hdrVars, gather_statistics, descVars,
                   treeVars, statVars, rootVars, cancelled, window, ranges, encTime,
                   total, encOrder>>

\* one iteration of the loop that writes the thread sections (lines 1486-1509);
\* its i stays 0
EncodeThread ==
    /\ pc = "enc_threads" /\ encPos < Len(encOrder)
    /\ LET id == encOrder[encPos + 1]
           tree == threaded_trees[id]
           range == ranges[id]
       IN  out' = [out EXCEPT !.threads = Append(@,
                      [id |-> id, name |-> tree.thread_name,
                       cswitches_count |-> range.cswitchesMemoryAndCount.blocksCount,
                       cswitches |-> IF range.cswitchesMemoryAndCount.blocksCount # 0
                                     THEN serializeContextSwitches(blocks, tree.sync,
                                              range.cswitches.begin, range.cswitches.end)
                                     ELSE <<>>,
                       blocks_count |-> range.blocksMemoryAndCount.blocksCount,
                       blocks |-> IF range.blocksMemoryAndCount.blocksCount # 0
                                  THEN serializeBlocks(blocks, tree.children,
                                           range.blocks.begin, range.blocks.end)
                                  ELSE <<>>])]
    /\ progress' = 40 + 60 \div (Len(encOrder) - encI)
    /\ IF ~update_progress_ok(progress)
       THEN Return(0, "interrupted") /\ UNCHANGED encPos
       ELSE encPos' = encPos + 1 /\ UNCHANGED <<pc, result, err>>
    /\ UNCHANGED <<op, eof, bytesRead, hdrVars, gather_statistics, descVars, treeVars,
                   statVars, rootVars, cancelled, window, ranges, encTime, total, encI,
                   encOrder>>

\* return total.blocksCount;
EncodeReturn ==
    /\ pc = "enc_threads" /\ encPos = Len(encOrder)
    /\ Return(total.blocksCount, "")
    /\ UNCHANGED <<op, progress, eof, bytesRead, hdrVars, gather_statistics, descVars,
                   treeVars, statVars, rootVars, cancelled, encVars>>

(***************************************************************************)
(* The external writer of the progress cell: a negative value asks the     *)
(* running entry point to stop.  `cancelled` remembers where the entry     *)
(* point was ("tail": after the last progress update of encode).           *)
(***************************************************************************)
Cancel ==
    /\ pc \notin {"idle", "done"}
    /\ cancelled = ""
    /\ progress' = 0 - 1
    /\ cancelled' = IF pc = "enc_threads" /\ encPos = Len(encOrder) THEN "tail" ELSE pc
    /\ UNCHANGED <<op, pc, result, err, eof, bytesRead, hdrVars, gather_statistics,
                   descVars, treeVars, statVars, rootVars, encVars>>

(***************************************************************************)
(* The streams and calls of the full pipeline: small tables, at most       *)
(* MaxSections thread sections, a block pool of PoolSize bytes.            *)
(***************************************************************************)
MaxSections == 2
PoolSize == 3
MaxDescriptors == 2

DFull ==
    [ops |-> {"decode", "descriptions"},
     gather |-> BOOLEAN,
     signatures |-> {PROFILER_SIGNATURE, PROFILER_SIGNATURE + 1},
     versions |-> {MIN_COMPATIBLE_VERSION - 1, EASY_CURRENT_VERSION},
     headers |-> {[pid |-> 1, cpu_frequency |-> 0, begin_time |-> 0, end_time |-> e,
                   memory_size |-> PoolSize, descriptors_memory_size |-> MaxDescriptors,
                   total_blocks_number |-> PoolSize, total_descriptors_number |-> n] :
                  e \in {2}, n \in {MaxDescriptors}},
     descs |-> {[eofAt |-> "none", sz |-> 1, id |-> Len(descriptors), type |-> "Block"],
                [eofAt |-> "none", sz |-> 0, id |-> 0, type |-> "Block"],
                [eofAt |-> "size", sz |-> 0, id |-> 0, type |-> "Block"]},
     threadIns |-> {[eofAt |-> "none", thread_id |-> t, name |-> "", count |-> c] :
                    t \in 1..MaxSections, c \in {0, 1}}
                   \cup {[eofAt |-> "thread_id", thread_id |-> 0, name |-> "", count |-> 0]},
     csIns |-> {[eofAt |-> "none", sz |-> 1, begin |-> 0, end |-> 1, name |-> ""],
                [eofAt |-> "none", sz |-> PoolSize + 1, begin |-> 0, end |-> 1, name |-> ""]},
     countIns |-> {[eofAt |-> "none", count |-> c] : c \in {1, 2}},
     blockIns |-> {[eofAt |-> "none", sz |-> 1, id |-> 0, begin |-> 0, end |-> 1, name |-> ""],
                   [eofAt |-> "none", sz |-> 1, id |-> 0, begin |-> 0, end |-> 2, name |-> ""],
                   [eofAt |-> "none", sz |-> 1, id |-> 1, begin |-> 1, end |-> 2, name |-> "n"],
                   [eofAt |-> "none", sz |-> 2, id |-> 1, begin |-> 1, end |-> 2, name |-> ""],
                   [eofAt |-> "none", sz |-> 1, id |-> MaxDescriptors, begin |-> 0, end |-> 1,
                    name |-> ""]},
     maxSections |-> MaxSections,
     windows |-> {[begin_time |-> begin_time, end_time |-> end_time],
                  [begin_time |-> 0, end_time |-> 0]},
     garbage |-> {0, 3}]

Next ==
    \/ Start(DFull)
    \/ ReadSignature(DFull)
    \/ ReadVersion(DFull)
    \/ ReadHeader(DFull)
    \/ DescReadHeader(DFull)
    \/ ReadDescriptor(DFull)
    \/ DescReadDescriptor(DFull)
    \/ DescReturn
    \/ DescriptorsDone
    \/ ReadThreadHeader(DFull)
    \/ ReadCSwitch(DFull)
    \/ ReadBlockCount(DFull)
    \/ ReadBlock(DFull)
    \/ Progress90
    \/ EnterRoots
    \/ Worker
    \/ Join
    \/ RootPlain
    \/ FinalStore
    \/ StartEncode(DFull)
    \/ EncodeRange(DFull)
    \/ EncodeHeader
    \/ EncodeThread
    \/ EncodeReturn
    \/ Cancel

Spec == Init /\ [][Next]_vars

(***************************************************************************)
(* Properties of the full pipeline (checked under Spec)                    *)
(***************************************************************************)
\* the bytes of the records of a prefix of `consumed` that went into the pool
RECURSIVE StoredBytes(_, _)
StoredBytes(cs, k) ==
    IF k = 0 THEN 0
    ELSE StoredBytes(cs, k - 1) + (IF cs[k].stored THEN cs[k].sz ELSE 0)

\* the blocks of the decoded model lie inside the header's time window
HeaderCoversBlocks ==
    \A k \in 1..Len(blocks) :
        blocks[k].begin >= begin_time /\ blocks[k].end <= end_time

\* C3: encoding a successfully decoded model with the window [trace begin,
\* trace end] succeeds (returns the number of blocks written, not 0), the first
\* half of the round trip.
RoundTripEncodeSucceeds ==
    (/\ op = "encode" /\ pc = "done" /\ cancelled = ""
     /\ blocks_counter > 0 /\ HeaderCoversBlocks
     /\ window.begin_time = begin_time /\ window.end_time = end_time)
    => result > 0

\* C5: a negative value stored into the progress cell while decode or encode
\* runs, before the operation's last progress update, makes the operation
\* return the failure sentinel 0.
CancelledReturnsFailure ==
    (pc = "done" /\ op \in {"decode", "encode"} /\ cancelled \notin {"", "tail"})
    => result = 0

\* C9: every attached block refers to an existing, non-null entry of the
\* descriptor table, and a block record whose id is outside the decoded table
\* or whose entry is null is the last record read: it is not attached and
\* decode has returned 0.
AttachedBlocksHaveDescriptors ==
    /\ \A k \in 1..Len(blocks) :
          blocks[k].kind = "block" =>
              /\ blocks[k].id < Len(descriptors)
              /\ ~descriptors[blocks[k].id + 1].null
    /\ \A k \in 1..Len(consumed) :
          (/\ consumed[k].kind = "block" /\ consumed[k].stored
           /\ \/ consumed[k].id >= header.total_descriptors_number
              \/ descriptors[consumed[k].id + 1].null)
          => /\ consumed[k].index = NoParent
             /\ k = Len(consumed)
             /\ op = "decode" /\ pc = "done" /\ result = 0
             /\ err \in {"bad_id", "null_desc"}

\* a record with a null descriptor was refused after an earlier block was attached
NullDescriptorRefused ==
    /\ pc = "done" /\ err = "null_desc"
    /\ blocks # <<>>
    /\ consumed[Len(consumed)].index = NoParent

\* C10: the bytes stored into the block pool never exceed the header's
\* memory_size, and a record whose length would pass memory_size is the last
\* record read: its payload is not stored and decode has returned 0.
PoolWithinMemorySize ==
    /\ poolI <= header.memory_size
    /\ poolI = StoredBytes(consumed, Len(consumed))
    /\ \A k \in 1..Len(consumed) :
          consumed[k].at + consumed[k].sz > header.memory_size
          => /\ ~consumed[k].stored
             /\ consumed[k].index = NoParent
             /\ k = Len(consumed)
             /\ op = "decode" /\ pc = "done" /\ result = 0
             /\ err \in {"cs_mem", "blk_mem"}

\* a block record was refused for the pool after the pool had been filled
PoolOverrunRefused ==
    /\ pc = "done" /\ err = "blk_mem"
    /\ poolI = header.memory_size
    /\ ~consumed[Len(consumed)].stored

(***************************************************************************)
(* The gate of both readers: every signature, version and header layout,   *)
(* with each count or size field of the header from 0 to HeaderFieldMax.   *)
(***************************************************************************)
HeaderFieldMax == 1

DHdr ==
    [ops |-> {"decode", "descriptions"},
     gather |-> {FALSE},
     signatures |-> {PROFILER_SIGNATURE, PROFILER_SIGNATURE + 1},
     versions |-> {MIN_COMPATIBLE_VERSION - 1, MIN_COMPATIBLE_VERSION, EASY_V_100,
                   EASY_V_100 + 1, EASY_V_130, EASY_V_200, EASY_CURRENT_VERSION},
     headers |-> {[pid |-> 1, cpu_frequency |-> 0, begin_time |-> 0, end_time |-> 1,
                   memory_size |-> m, descriptors_memory_size |-> d,
                   total_blocks_number |-> b, total_descriptors_number |-> n] :
                  m \in 0..HeaderFieldMax, d \in 0..HeaderFieldMax,
                  b \in 0..HeaderFieldMax, n \in 0..HeaderFieldMax},
     descs |-> {[eofAt |-> "none", sz |-> 1, id |-> Len(descriptors), type |-> "Block"]},
     threadIns |-> {[eofAt |-> "thread_id", thread_id |-> 0, name |-> "", count |-> 0]},
     maxSections |-> 0]

NextHdr ==
    \/ Start(DHdr)
    \/ ReadSignature(DHdr)
    \/ ReadVersion(DHdr)
    \/ ReadHeader(DHdr)
    \/ DescReadHeader(DHdr)
    \/ ReadDescriptor(DHdr)
    \/ DescReadDescriptor(DHdr)
    \/ DescReturn
    \/ DescriptorsDone
    \/ ReadThreadHeader(DHdr)
    \/ Progress90
    \/ EnterRoots
    \/ FinalStore

SpecHdr == Init /\ [][NextHdr]_vars

\* nothing of the stream after the version word has been read or decoded
NothingDecoded ==
    /\ header = EmptyHeader /\ hdrIn = EmptyHeader
    /\ descriptors = <<>> /\ descI = 0
    /\ blocks = <<>> /\ consumed = <<>> /\ poolI = 0

\* C7: decode and the descriptors-only reader return failure on a signature
\* other than PROFILER_SIGNATURE (4 bytes read) or a version below
\* MIN_COMPATIBLE_VERSION (8 bytes read), and read no header field, descriptor
\* or record.
BadSignatureOrVersionFails ==
    /\ (pc \notin {"idle", "signature"} /\ signature # PROFILER_SIGNATURE)
       => /\ pc = "done" /\ result = 0 /\ err = "signature"
          /\ bytesRead = 4 /\ version = 0
          /\ NothingDecoded
    /\ (/\ pc \notin {"idle", "signature", "version"}
        /\ signature = PROFILER_SIGNATURE
        /\ version < MIN_COMPATIBLE_VERSION)
       => /\ pc = "done" /\ result = 0 /\ err = "version"
          /\ bytesRead = 8
          /\ NothingDecoded

\* the descriptors-only reader has refused a version below the floor
OldVersionRefused ==
    /\ op = "descriptions" /\ pc = "done" /\ err = "version"
    /\ signature = PROFILER_SIGNATURE
    /\ version = MIN_COMPATIBLE_VERSION - 1

\* C8: with either header layout, decode returns 0 when the block count, the
\* memory size, the descriptor count or the descriptors' memory size read from
\* the header is zero, and then no descriptor and no record is decoded.
ZeroHeaderFieldFails ==
    (/\ op = "decode" /\ hdrIn # EmptyHeader
     /\ \/ hdrIn.total_blocks_number = 0
        \/ hdrIn.memory_size = 0
        \/ hdrIn.total_descriptors_number = 0
        \/ hdrIn.descriptors_memory_size = 0)
    => /\ pc = "done" /\ result = 0 /\ err = "header"
       /\ descriptors = <<>> /\ descI = 0
       /\ blocks = <<>> /\ consumed = <<>> /\ poolI = 0

\* a header of the old layout whose only zero field is the last one read
ZeroFieldRefusedOldLayout ==
    /\ op = "decode" /\ pc = "done" /\ err = "header"
    /\ version < EASY_V_200
    /\ hdrIn.descriptors_memory_size = 0
    /\ hdrIn.total_blocks_number # 0 /\ hdrIn.memory_size # 0
    /\ hdrIn.total_descriptors_number # 0

(***************************************************************************)
(* Tree reconstruction: one thread section of up to MaxTreeBlocks block    *)
(* records whose begin and end are any two points of TreeTimes.            *)
(***************************************************************************)
MaxTreeBlocks == 3
TreeTimes == {0, 10, 40, 50, 90, 100}

DTree ==
    [ops |-> {"decode"},
     gather |-> {FALSE},
     signatures |-> {PROFILER_SIGNATURE},
     versions |-> {EASY_CURRENT_VERSION},
     headers |-> {[pid |-> 1, cpu_frequency |-> 0, begin_time |-> 0, end_time |-> 100,
                   memory_size |-> MaxTreeBlocks, descriptors_memory_size |-> 1,
                   total_blocks_number |-> MaxTreeBlocks, total_descriptors_number |-> 1]},
     descs |-> {[eofAt |-> "none", sz |-> 1, id |-> 0, type |-> "Block"]},
     threadIns |-> {[eofAt |-> "none", thread_id |-> 1, name |-> "", count |-> 0],
                    [eofAt |-> "thread_id", thread_id |-> 0, name |-> "", count |-> 0]},
     countIns |-> {[eofAt |-> "none", count |-> c] : c \in 1..MaxTreeBlocks},
     blockIns |-> {[eofAt |-> "none", sz |-> 1, id |-> 0, begin |-> t[1], end |-> t[2],
                    name |-> ""] : t \in {x \in TreeTimes \X TreeTimes : x[1] <= x[2]}},
     maxSections |-> 1]

NextTree ==
    \/ Start(DTree)
    \/ ReadSignature(DTree)
    \/ ReadVersion(DTree)
    \/ ReadHeader(DTree)
    \/ ReadDescriptor(DTree)
    \/ DescriptorsDone
    \/ ReadThreadHeader(DTree)
    \/ ReadBlockCount(DTree)
    \/ ReadBlock(DTree)
    \/ Progress90
    \/ EnterRoots
    \/ RootPlain
    \/ FinalStore

SpecTree == Init /\ [][NextTree]_vars

\* record a encloses record b in time
Encloses(a, b) == a.begin <= b.begin /\ b.end <= a.end

\* cs is in completion order and properly nested: of two records the earlier
\* ended before the later began or lies inside the later
ProperlyNested(cs) ==
    /\ \A i \in 1..Len(cs) : cs[i].begin <= cs[i].end
    /\ \A i, j \in 1..Len(cs) :
          i < j => (cs[i].end <= cs[j].begin \/ Encloses(cs[j], cs[i]))

\* no record of zero duration lies at the begin time of a later record
NoInstantAtLaterBegin(cs) ==
    \A i, j \in 1..Len(cs) :
        (i < j /\ cs[i].begin = cs[i].end) => cs[i].end # cs[j].begin

\* record j directly encloses record i: it encloses i and no record between
\* them in arrival order does
DirectlyEncloses(cs, j, i) ==
    /\ i < j /\ Encloses(cs[j], cs[i])
    /\ ~\E k \in (i + 1)..(j - 1) : Encloses(cs[k], cs[i])

IsAscending(seq) == \A a, b \in 1..Len(seq) : a < b => seq[a] < seq[b]

\* every node's children are the records it directly encloses and the root's
\* children the records no other record encloses, both in arrival order
ChildrenAreDirectlyEnclosed ==
    /\ Len(blocks) = Len(consumed)
    /\ \A j \in 1..Len(consumed) :
          /\ consumed[j].index = j - 1
          /\ IsAscending(blocks[j].children)
          /\ Range(blocks[j].children) =
                 {i - 1 : i \in {i \in 1..Len(consumed) :
                                   DirectlyEncloses(consumed, j, i)}}
    /\ IsAscending(threaded_trees[1].children)
    /\ Range(threaded_trees[1].children) =
           {i - 1 : i \in {i \in 1..Len(consumed) :
                             ~\E j \in (i + 1)..Len(consumed) :
                                  Encloses(consumed[j], consumed[i])}}

\* C1 as stated: for any properly nested completion-ordered sequence of block
\* records of one thread, the tree is the containment nesting.
TreeIsContainmentNestingAlways ==
    (ProperlyNested(consumed) /\ consumed # <<>>) => ChildrenAreDirectlyEnclosed

\* C1, amended: for any properly nested completion-ordered sequence of block
\* records of one thread in which no zero-duration record lies at the begin
\* time of a later record, every node's children are exactly the records it
\* directly encloses, in arrival order, and the root's children are exactly the
\* records no other record encloses.
TreeIsContainmentNesting ==
    (/\ ProperlyNested(consumed) /\ NoInstantAtLaterBegin(consumed)
     /\ consumed # <<>>)
    => ChildrenAreDirectlyEnclosed

\* the records B(10,40), C(50,90), A(0,100) have arrived in that order: the
\* root holds A, and A holds B and C
NestingExample ==
    /\ Len(consumed) = 3
    /\ consumed[1].begin = 10 /\ consumed[1].end = 40
    /\ consumed[2].begin = 50 /\ consumed[2].end = 90
    /\ consumed[3].begin = 0 /\ consumed[3].end = 100
    /\ threaded_trees[1].children = <<2>>
    /\ blocks[3].children = <<0, 1>>
    /\ blocks[1].children = <<>> /\ blocks[2].children = <<>>

(***************************************************************************)
(* Per-thread statistics: one thread section of up to MaxStatBlocks block  *)
(* records of two descriptors, decoded with gather_statistics.             *)
(***************************************************************************)
MaxStatBlocks == 3

DStats ==
    [ops |-> {"decode"},
     gather |-> {TRUE},
     signatures |-> {PROFILER_SIGNATURE},
     versions |-> {EASY_CURRENT_VERSION},
     headers |-> {[pid |-> 1, cpu_frequency |-> 0, begin_time |-> 0, end_time |-> 100,
                   memory_size |-> MaxStatBlocks, descriptors_memory_size |-> 2,
                   total_blocks_number |-> MaxStatBlocks, total_descriptors_number |-> 2]},
     descs |-> {[eofAt |-> "none", sz |-> 1, id |-> Len(descriptors), type |-> "Block"]},
     threadIns |-> {[eofAt |-> "none", thread_id |-> 1, name |-> "", count |-> 0],
                    [eofAt |-> "thread_id", thread_id |-> 0, name |-> "", count |-> 0]},
     countIns |-> {[eofAt |-> "none", count |-> c] : c \in 1..MaxStatBlocks},
     blockIns |-> {[eofAt |-> "none", sz |-> 1, id |-> k, begin |-> t[1], end |-> t[2],
                    name |-> ""] :
                   k \in {0, 1}, t \in {<<0, 10>>, <<10, 40>>, <<50, 90>>, <<0, 100>>}},
     maxSections |-> 1]

NextStats ==
    \/ Start(DStats)
    \/ ReadSignature(DStats)
    \/ ReadVersion(DStats)
    \/ ReadHeader(DStats)
    \/ ReadDescriptor(DStats)
    \/ DescriptorsDone
    \/ ReadThreadHeader(DStats)
    \/ ReadBlockCount(DStats)
    \/ ReadBlock(DStats)
    \/ Progress90
    \/ EnterRoots
    \/ Worker
    \/ Join
    \/ FinalStore

SpecStats == Init /\ [][NextStats]_vars

\* the attached block records of descriptor id K among the first k records read
Occurrences(cs, k, K) ==
    {n \in 1..k : cs[n].kind = "block" /\ cs[n].index # NoParent /\ cs[n].id = K}

\* the sum of their durations
RECURSIVE SumOfDurations(_, _, _)
SumOfDurations(cs, k, K) ==
    IF k = 0 THEN 0
    ELSE SumOfDurations(cs, k - 1, K)
         + (IF k \in Occurrences(cs, k, K) THEN cs[k].end - cs[k].begin ELSE 0)

\* C6: in the per-thread statistics map, the object of descriptor id K counts
\* the N attached occurrences of K in the thread (calls_number = N) and sums
\* their durations (total_duration), in whatever order the occurrences were
\* processed; an id without occurrence has no object.
PerThreadStatisticsExact ==
    \A K \in 0..1 :
        IF Occurrences(consumed, Len(consumed), K) = {}
        THEN K \notin DOMAIN per_thread_statistics
        ELSE /\ K \in DOMAIN per_thread_statistics
             /\ stats[per_thread_statistics[K]].calls_number =
                    Cardinality(Occurrences(consumed, Len(consumed), K))
             /\ stats[per_thread_statistics[K]].total_duration =
                    SumOfDurations(consumed, Len(consumed), K) % TimestampModulus

\* three occurrences of descriptor 0 with different durations have been aggregated
ThreeOccurrencesAggregated ==
    /\ pc = "done" /\ result = 3
    /\ 0 \in DOMAIN per_thread_statistics
    /\ stats[per_thread_statistics[0]].calls_number = 3
    /\ stats[per_thread_statistics[0]].total_duration = 30 + 40 + 100

(***************************************************************************)
(* The stack depth limit: one thread section holding a chain of strictly   *)
(* nested blocks, each block enclosing the one read before it.  The chain  *)
(* is MaxChain - 2, MaxChain - 1 or MaxChain blocks long.                  *)
(***************************************************************************)
MaxChain == 256

DChain ==
    [ops |-> {"decode"},
     gather |-> {FALSE},
     signatures |-> {PROFILER_SIGNATURE},
     versions |-> {EASY_CURRENT_VERSION},
     headers |-> {[pid |-> 1, cpu_frequency |-> 0, begin_time |-> 0,
                   end_time |-> 2 * MaxChain + 1,
                   memory_size |-> MaxChain, descriptors_memory_size |-> 1,
                   total_blocks_number |-> MaxChain, total_descriptors_number |-> 1]},
     descs |-> {[eofAt |-> "none", sz |-> 1, id |-> 0, type |-> "Block"]},
     threadIns |-> {[eofAt |-> "none", thread_id |-> 1, name |-> "", count |-> 0],
                    [eofAt |-> "thread_id", thread_id |-> 0, name |-> "", count |-> 0]},
     countIns |-> {[eofAt |-> "none", count |-> c] : c \in (MaxChain - 2)..MaxChain},
     blockIns |-> {[eofAt |-> "none", sz |-> 1, id |-> 0,
                    begin |-> MaxChain - read_number,
                    end |-> MaxChain + 1 + read_number, name |-> ""]},
     maxSections |-> 1]

NextChain ==
    \/ Start(DChain)
    \/ ReadSignature(DChain)
    \/ ReadVersion(DChain)
    \/ ReadHeader(DChain)
    \/ ReadDescriptor(DChain)
    \/ DescriptorsDone
    \/ ReadThreadHeader(DChain)
    \/ ReadBlockCount(DChain)
    \/ ReadBlock(DChain)
    \/ Progress90
    \/ EnterRoots
    \/ RootPlain
    \/ FinalStore

SpecChain == Init /\ [][NextChain]_vars

\* C2 as stated: decoding a chain of 255 strictly nested blocks fails with
\* the stack depth diagnostic, and a chain of 254 succeeds.
ChainOf255Fails ==
    (pc = "done" /\ threshold \in {254, 255})
    => IF threshold = 255 THEN result = 0 /\ err = "depth"
       ELSE result = 254 /\ err = ""

\* C2, amended: decoding a chain of 256 strictly nested blocks fails
\* (returns 0 with the stack depth diagnostic, at the 256th block), and chains
\* of 255 and of 254 strictly nested blocks decode successfully.
ChainOf256Fails ==
    /\ (pc = "done" /\ threshold >= 256)
       => /\ result = 0 /\ err = "depth"
          /\ read_number = 256
    /\ (pc = "done" /\ threshold \in {254, 255})
       => /\ result = threshold /\ err = ""
          /\ blocks[threshold].depth = threshold - 1
    /\ \A k \in 1..Len(blocks) : blocks[k].depth <= MAX_DEPTH

\* the chain of 256 blocks has been refused at its last block
Chain256Refused ==
    /\ pc = "done" /\ err = "depth" /\ result = 0
    /\ threshold = 256 /\ read_number = 256
    /\ blocks[255].depth = 254

(***************************************************************************)
(* Range selection: one thread of up to MaxRangeBlocks top-level blocks of *)
(* duration 10, each beginning at or after the end of the one before it,   *)
(* is decoded and then encoded with a window.                              *)
(***************************************************************************)
MaxRangeBlocks == 3

LastEnd == IF consumed = <<>> THEN 0 ELSE consumed[Len(consumed)].end

DRange ==
    [ops |-> {"decode"},
     gather |-> {FALSE},
     signatures |-> {PROFILER_SIGNATURE},
     versions |-> {EASY_CURRENT_VERSION},
     headers |-> {[pid |-> 1, cpu_frequency |-> 0, begin_time |-> 0, end_time |-> 70,
                   memory_size |-> MaxRangeBlocks, descriptors_memory_size |-> 1,
                   total_blocks_number |-> MaxRangeBlocks,
                   total_descriptors_number |-> 1]},
     descs |-> {[eofAt |-> "none", sz |-> 1, id |-> 0, type |-> "Block"]},
     threadIns |-> {[eofAt |-> "none", thread_id |-> 1, name |-> "", count |-> 0],
                    [eofAt |-> "thread_id", thread_id |-> 0, name |-> "", count |-> 0]},
     countIns |-> {[eofAt |-> "none", count |-> c] : c \in 1..MaxRangeBlocks},
     blockIns |-> {[eofAt |-> "none", sz |-> 1, id |-> 0, begin |-> b, end |-> b + 10,
                    name |-> ""] : b \in {LastEnd, LastEnd + 10}},
     maxSections |-> 1,
     windows |-> {[begin_time |-> t[1], end_time |-> t[2]] :
                  t \in {x \in {0, 15, 45, 70} \X {0, 15, 45, 70} : x[1] <= x[2]}},
     garbage |-> {0}]

NextRange ==
    \/ Start(DRange)
    \/ ReadSignature(DRange)
    \/ ReadVersion(DRange)
    \/ ReadHeader(DRange)
    \/ ReadDescriptor(DRange)
    \/ DescriptorsDone
    \/ ReadThreadHeader(DRange)
    \/ ReadBlockCount(DRange)
    \/ ReadBlock(DRange)
    \/ Progress90
    \/ EnterRoots
    \/ RootPlain
    \/ FinalStore
    \/ StartEncode(DRange)
    \/ EncodeRange(DRange)
    \/ EncodeHeader
    \/ EncodeThread
    \/ EncodeReturn

SpecRange == Init /\ [][NextRange]_vars

\* the first position of 0..n-1 in S, n when there is none
FirstPosition(S, n) == CHOOSE k \in S \cup {n} : \A m \in S \cup {n} : k <= m

\* C4: the range computed for a thread's top-level children (ordered by end
\* time) with the window [b,e] selects the positions from i, the first whose
\* end >= b, up to but not including j, the first whose begin > e, with j the
\* number of children when no entry begins after e.
FindRangeSelectsWindow ==
    \A id \in DOMAIN ranges :
        LET children == threaded_trees[id].children
            n == Len(children)
            i == FirstPosition({k \in 0..(n - 1) :
                     Blk(blocks, children[k + 1]).end >= window.begin_time}, n)
            j == FirstPosition({k \in 0..(n - 1) :
                     Blk(blocks, children[k + 1]).begin > window.end_time}, n)
        IN  {k \in 0..(n - 1) : ranges[id].blocks.begin <= k /\ k < ranges[id].blocks.end}
            = {k \in 0..(n - 1) : i <= k /\ k < j}

(***************************************************************************)
(* Decode alone: the streams of the full pipeline with a good signature    *)
(* and version and block records of duration 1, read by                    *)
(* fillTreesFromStream to its return.                                      *)
(***************************************************************************)
DPool ==
    [DFull EXCEPT !.ops = {"decode"},
                  !.signatures = {PROFILER_SIGNATURE},
                  !.versions = {EASY_CURRENT_VERSION},
                  !.blockIns = {b \in @ : b.end - b.begin = 1}]

NextPool ==
    \/ Start(DPool)
    \/ ReadSignature(DPool)
    \/ ReadVersion(DPool)
    \/ ReadHeader(DPool)
    \/ ReadDescriptor(DPool)
    \/ DescriptorsDone
    \/ ReadThreadHeader(DPool)
    \/ ReadCSwitch(DPool)
    \/ ReadBlockCount(DPool)
    \/ ReadBlock(DPool)
    \/ Progress90
    \/ EnterRoots
    \/ Worker
    \/ Join
    \/ RootPlain
    \/ FinalStore

SpecPool == Init /\ [][NextPool]_vars

(***************************************************************************)
(* Depths of the nesting example (checked under SpecTree)                  *)
(***************************************************************************)
\* the first three records read are B(10,40), C(50,90), A(0,100)
ExampleRead ==
    /\ Len(consumed) >= 3 /\ Len(blocks) >= 3
    /\ consumed[1].begin = 10 /\ consumed[1].end = 40
    /\ consumed[2].begin = 50 /\ consumed[2].end = 90
    /\ consumed[3].begin = 0 /\ consumed[3].end = 100

\* C11 as stated: for B(10,40), C(50,90), A(0,100) decode assigns depth 1 to A
\* and depth 2 to B and to C.
ExampleDepthsGrowDownward ==
    ExampleRead => /\ blocks[3].depth = 1
                   /\ blocks[1].depth = 2 /\ blocks[2].depth = 2

\* C11, amended: for B(10,40), C(50,90), A(0,100) decode assigns depth 1 to A
\* and depth 0 to B and to C.
ExampleDepthsGrowUpward ==
    ExampleRead => /\ blocks[3].depth = 1
                   /\ blocks[1].depth = 0 /\ blocks[2].depth = 0

\* the example has been decoded to the end
ExampleDecoded ==
    /\ ExampleRead /\ Len(consumed) = 3
    /\ pc = "done" /\ result = 3
    /\ blocks[3].children = <<0, 1>>

(***************************************************************************)
(* The window written by encode (checked under SpecRange)                  *)
(***************************************************************************)
\* the thread's top-level records are [0,10],[20,30],[40,50] and the model has
\* been encoded with the window [15,45]
RangeExampleEncoded ==
    /\ op = "encode" /\ pc = "done"
    /\ Len(consumed) = 3
    /\ \A k \in 1..3 : consumed[k].begin = 20 * (k - 1) /\ consumed[k].end = 20 * (k - 1) + 10
    /\ threaded_trees[1].children = <<0, 1, 2>>
    /\ window.begin_time = 15 /\ window.end_time = 45

\* C12: for a thread whose top-level records are [0,10],[20,30],[40,50] and the
\* window [15,45], the begin and end timestamps written to the output header
\* are 20 and 50.
ExampleWindowWritten ==
    RangeExampleEncoded => /\ out.written
                           /\ out.header.begin_time = 20
                           /\ out.header.end_time = 50

\* C13: the window written to the output header is never narrower than the
\* requested window: written begin <= requested begin_time and written end >=
\* requested end_time.
WrittenWindowNotNarrower ==
    out.written => /\ out.header.begin_time <= window.begin_time
                   /\ out.header.end_time >= window.end_time

\* a header was written whose window is wider than the requested one at both ends
WindowWidenedBothEnds ==
    /\ op = "encode" /\ pc = "done" /\ result > 0
    /\ out.written
    /\ out.header.begin_time < window.begin_time
    /\ out.header.end_time > window.end_time

(***************************************************************************)
(* Context switches and blocks of one thread: up to MaxSyncRecords         *)
(* context switches and up to MaxSyncRecords top-level blocks, each of     *)
(* duration 10 and each beginning at or after the end of the one of its    *)
(* kind before it, decoded and then encoded with a window.                 *)
(***************************************************************************)
MaxSyncRecords == 2

\* the end time of the last record of a kind read so far
RECURSIVE LastEndOf(_, _)
LastEndOf(kind, k) ==
    IF k = 0 THEN 0
    ELSE IF consumed[k].kind = kind THEN consumed[k].end
    ELSE LastEndOf(kind, k - 1)

DSync ==
    [ops |-> {"decode"},
     gather |-> {FALSE},
     signatures |-> {PROFILER_SIGNATURE},
     versions |-> {EASY_CURRENT_VERSION},
     headers |-> {[pid |-> 1, cpu_frequency |-> 0, begin_time |-> 0, end_time |-> 70,
                   memory_size |-> 2 * MaxSyncRecords, descriptors_memory_size |-> 1,
                   total_blocks_number |-> 2 * MaxSyncRecords,
                   total_descriptors_number |-> 1]},
     descs |-> {[eofAt |-> "none", sz |-> 1, id |-> 0, type |-> "Block"]},
     threadIns |-> {[eofAt |-> "none", thread_id |-> 1, name |-> "", count |-> c] :
                    c \in 1..MaxSyncRecords}
                   \cup {[eofAt |-> "thread_id", thread_id |-> 0, name |-> "", count |-> 0]},
     csIns |-> {[eofAt |-> "none", sz |-> 1, begin |-> b, end |-> b + 10, name |-> ""] :
                b \in {LastEndOf("cs", Len(consumed)),
                       LastEndOf("cs", Len(consumed)) + 10}},
     countIns |-> {[eofAt |-> "none", count |-> c] : c \in 0..MaxSyncRecords},
     blockIns |-> {[eofAt |-> "none", sz |-> 1, id |-> 0, begin |-> b, end |-> b + 10,
                    name |-> ""] :
                   b \in {LastEndOf("block", Len(consumed)),
                          LastEndOf("block", Len(consumed)) + 10}},
     maxSections |-> 1,
     windows |-> {[begin_time |-> t[1], end_time |-> t[2]] :
                  t \in {x \in {0, 5, 15, 45} \X {0, 5, 15, 45} : x[1] <= x[2]}},
     garbage |-> {0, 70}]

NextSync ==
    \/ Start(DSync)
    \/ ReadSignature(DSync)
    \/ ReadVersion(DSync)
    \/ ReadHeader(DSync)
    \/ ReadDescriptor(DSync)
    \/ DescriptorsDone
    \/ ReadThreadHeader(DSync)
    \/ ReadCSwitch(DSync)
    \/ ReadBlockCount(DSync)
    \/ ReadBlock(DSync)
    \/ Progress90
    \/ EnterRoots
    \/ RootPlain
    \/ FinalStore
    \/ StartEncode(DSync)
    \/ EncodeRange(DSync)
    \/ EncodeHeader
    \/ EncodeThread
    \/ EncodeReturn

SpecSync == Init /\ [][NextSync]_vars

\* the written window contains the records of the positions [r.begin, r.end)
\* of a list of block indices
WindowCovers(list, r) ==
    \A k \in 1..Len(list) :
        (r.begin < k /\ k <= r.end)
        => /\ out.header.begin_time <= Blk(blocks, list[k]).begin
           /\ out.header.end_time >= Blk(blocks, list[k]).end

\* C14: the window written to the output header covers every selected record
\* of every thread: each selected top-level block and each context switch
\* selected from the thread's sync list begins at or after the written begin
\* and ends at or before the written end.
WrittenWindowCoversSelection ==
    out.written =>
        \A id \in DOMAIN ranges :
            /\ WindowCovers(threaded_trees[id].children, ranges[id].blocks)
            /\ WindowCovers(threaded_trees[id].sync, ranges[id].cswitches)

\* every range computed by encode is empty
NothingSelected ==
    \A id \in DOMAIN ranges :
        /\ ranges[id].blocks.begin = ranges[id].blocks.end
        /\ ranges[id].cswitches.begin = ranges[id].cswitches.end

\* C15: if the window selects no block and no context switch in any thread, or
\* the tree map or the descriptors are empty, encode returns 0 and has written
\* nothing to the output stream.
EmptySelectionWritesNothing ==
    (/\ op = "encode" /\ pc = "done"
     /\ \/ NothingSelected
        \/ DOMAIN threaded_trees = {}
        \/ header.descriptors_memory_size = 0
        \/ header.total_descriptors_number = 0)
    => /\ result = 0
       /\ ~out.written /\ out.descriptors = <<>> /\ out.threads = <<>>

\* a thread holds blocks and context switches, the window selects none of them
\* and encode has returned 0
NothingToSave ==
    /\ op = "encode" /\ pc = "done" /\ err = "nothing" /\ result = 0
    /\ DOMAIN ranges = {1} /\ NothingSelected
    /\ threaded_trees[1].children # <<>> /\ threaded_trees[1].sync # <<>>
    /\ ~out.written

(***************************************************************************)
(* The progress cell without an external writer: the streams of SpecPool   *)
(* in one thread section, and also descriptor records longer than the      *)
(* header's descriptors_memory_size, decoded and then encoded.             *)
(***************************************************************************)
DProgress ==
    [DPool EXCEPT !.descs = @ \cup {[eofAt |-> "none", sz |-> 8 * MaxDescriptors,
                                     id |-> Len(descriptors), type |-> "Block"]},
                  !.threadIns = {in \in @ : in.thread_id <= 1},
                  !.maxSections = 1]

NextProgress ==
    \/ Start(DProgress)
    \/ ReadSignature(DProgress)
    \/ ReadVersion(DProgress)
    \/ ReadHeader(DProgress)
    \/ ReadDescriptor(DProgress)
    \/ DescriptorsDone
    \/ ReadThreadHeader(DProgress)
    \/ ReadCSwitch(DProgress)
    \/ ReadBlockCount(DProgress)
    \/ ReadBlock(DProgress)
    \/ Progress90
    \/ EnterRoots
    \/ Worker
    \/ Join
    \/ RootPlain
    \/ FinalStore
    \/ StartEncode(DProgress)
    \/ EncodeRange(DProgress)
    \/ EncodeHeader
    \/ EncodeThread
    \/ EncodeReturn

SpecProgress == Init /\ [][NextProgress]_vars

\* C16: without an external writer, the values decode and encode store into
\* the progress cell never decrease within a run, and every stored value lies
\* in [0,100].
ProgressNonDecreasing ==
    [][/\ progress' \in 0..100
       /\ (op' = op /\ pc # "idle") => progress <= progress']_vars

(***************************************************************************)
(* Runtime names: two thread sections of up to MaxNamedBlocks top-level    *)
(* blocks each, every block with one of two static ids and with no name or *)
(* one of two runtime names.                                               *)
(***************************************************************************)
MaxNamedBlocks == 2

DNames ==
    [ops |-> {"decode"},
     gather |-> {FALSE},
     signatures |-> {PROFILER_SIGNATURE},
     versions |-> {EASY_CURRENT_VERSION},
     headers |-> {[pid |-> 1, cpu_frequency |-> 0, begin_time |-> 0, end_time |-> 100,
                   memory_size |-> 2 * MaxNamedBlocks, descriptors_memory_size |-> 2,
                   total_blocks_number |-> 2 * MaxNamedBlocks,
                   total_descriptors_number |-> 2]},
     descs |-> {[eofAt |-> "none", sz |-> 1, id |-> Len(descriptors), type |-> "Block"]},
     threadIns |-> {[eofAt |-> "none", thread_id |-> sections + 1, name |-> "", count |-> 0],
                    [eofAt |-> "thread_id", thread_id |-> 0, name |-> "", count |-> 0]},
     countIns |-> {[eofAt |-> "none", count |-> c] : c \in 1..MaxNamedBlocks},
     blockIns |-> {[eofAt |-> "none", sz |-> 1, id |-> k, begin |-> 10 * read_number,
                    end |-> 10 * read_number + 5, name |-> n] :
                   k \in {0, 1}, n \in {"", "a", "b"}},
     maxSections |-> 2]

NextNames ==
    \/ Start(DNames)
    \/ ReadSignature(DNames)
    \/ ReadVersion(DNames)
    \/ ReadHeader(DNames)
    \/ ReadDescriptor(DNames)
    \/ DescriptorsDone
    \/ ReadThreadHeader(DNames)
    \/ ReadBlockCount(DNames)
    \/ ReadBlock(DNames)
    \/ Progress90
    \/ EnterRoots
    \/ RootPlain
    \/ FinalStore

SpecNames == Init /\ [][NextNames]_vars

\* the attached block records among the first n records read
AttachedBlocks(n) ==
    {k \in 1..n : consumed[k].kind = "block" /\ consumed[k].index # NoParent}

\* the runtime names of the attached block records among the first n records
NamesSeen(n) == {consumed[k].name : k \in AttachedBlocks(n)} \ {""}

\* the id record k has in the decoded model
DecodedId(k) == Blk(blocks, consumed[k].index).id

\* C17: two attached named block records have the same id exactly when they
\* carry the same runtime name, also across threads; a record with a name seen
\* for the first time gets the next free table index, which is at least the
\* static descriptor count, and the table grows by a duplicate of that record's
\* static descriptor; a record without a runtime name keeps its static id.
DynamicIdsFollowNames ==
    /\ IF AttachedBlocks(Len(consumed)) = {}
       THEN Len(descriptors) <= header.total_descriptors_number
       ELSE Len(descriptors) = header.total_descriptors_number
                               + Cardinality(NamesSeen(Len(consumed)))
    /\ \A k \in AttachedBlocks(Len(consumed)) :
          IF consumed[k].name = ""
          THEN DecodedId(k) = consumed[k].id
          ELSE /\ DecodedId(k) >= header.total_descriptors_number
               /\ consumed[k].name \notin NamesSeen(k - 1)
                  => /\ DecodedId(k) = header.total_descriptors_number
                                       + Cardinality(NamesSeen(k - 1))
                     /\ descriptors[DecodedId(k) + 1] = descriptors[consumed[k].id + 1]
               /\ \A m \in AttachedBlocks(Len(consumed)) :
                     consumed[m].name # ""
                     => (DecodedId(m) = DecodedId(k) <=> consumed[m].name = consumed[k].name)

\* two threads have used the runtime name "a" with different static ids, and
\* another name came in between
NameSharedAcrossThreads ==
    /\ pc = "done" /\ result = 4
    /\ consumed[1].name = "a" /\ consumed[1].id = 0 /\ consumed[1].thread = 1
    /\ consumed[2].name = "b"
    /\ consumed[3].name = "a" /\ consumed[3].id = 1 /\ consumed[3].thread = 2
    /\ consumed[4].name = ""
    /\ DecodedId(1) = 2 /\ DecodedId(3) = 2 /\ DecodedId(2) = 3
    /\ Len(descriptors) = 4

(***************************************************************************)
(* Runtime names through encode: the model decoded under SpecNames is      *)
(* encoded with a window.  The records of a stream of DNames begin at      *)
(* different times, so a written record is the input record with its begin *)
(* time.                                                                   *)
(***************************************************************************)
DRestore ==
    DNames @@ [windows |-> {[begin_time |-> 0, end_time |-> 15],
                            [begin_time |-> 0, end_time |-> 25]},
               garbage |-> {0}]

NextRestore ==
    \/ Start(DRestore)
    \/ ReadSignature(DRestore)
    \/ ReadVersion(DRestore)
    \/ ReadHeader(DRestore)
    \/ ReadDescriptor(DRestore)
    \/ DescriptorsDone
    \/ ReadThreadHeader(DRestore)
    \/ ReadBlockCount(DRestore)
    \/ ReadBlock(DRestore)
    \/ Progress90
    \/ EnterRoots
    \/ RootPlain
    \/ FinalStore
    \/ StartEncode(DRestore)
    \/ EncodeRange(DRestore)
    \/ EncodeHeader
    \/ EncodeThread
    \/ EncodeReturn

SpecRestore == Init /\ [][NextRestore]_vars

\* C18: every block whose id was remapped to a dynamic id during decode is
\* written by encode with the static descriptor id the same record carried in
\* the input stream.
WrittenIdIsInputId ==
    \A t \in 1..Len(out.threads) :
        \A r \in 1..Len(out.threads[t].blocks) :
            \A k \in AttachedBlocks(Len(consumed)) :
                (/\ consumed[k].name # ""
                 /\ consumed[k].begin = out.threads[t].blocks[r].begin)
                => out.threads[t].blocks[r].id = consumed[k].id

(***************************************************************************)
(* The descriptor table against the records read (checked under Spec,      *)
(* whose descriptor records are read whole or not at all)                  *)
(***************************************************************************)
\* the bytes of the stream before the descriptor section
BytesBeforeDescriptors ==
    IF op = "descriptions" THEN 8 + 12
    ELSE IF version < EASY_V_200 THEN 8 + readHeader_v1(hdrIn, version).bytes
    ELSE 8 + readHeader_v2(hdrIn, version).bytes

\* the length-prefixed descriptor records read so far: each record read took
\* its 2-byte length and its payload, and descI is the sum of the payloads
DescriptorRecordsRead == (bytesRead - BytesBeforeDescriptors - descI) \div 2

\* the descriptor loop has been left
DescriptorLoopLeft ==
    /\ pc = "descriptors"
    /\ eof \/ Len(descriptors) >= header.total_descriptors_number

\* C19: after the descriptor section is decoded the table holds exactly one
\* entry per descriptor record read from the stream, also when the stream ended
\* before descriptor_count records were read: the records read so far and
\* nothing else.
TableHoldsRecordsRead ==
    DescriptorLoopLeft => Len(descriptors) = DescriptorRecordsRead

(***************************************************************************)
(* The descriptor section written by encode: the streams of SpecRange with *)
(* a table of MaxTableSize descriptors, each carrying its table index or   *)
(* the next number as its id.                                              *)
(***************************************************************************)
MaxTableSize == 3

DTable ==
    [DRange EXCEPT !.headers = {[h EXCEPT !.descriptors_memory_size = MaxTableSize,
                                          !.total_descriptors_number = MaxTableSize] :
                                h \in @},
                   !.descs = {[eofAt |-> "none", sz |-> 1, id |-> k, type |-> "Block"] :
                              k \in {Len(descriptors), Len(descriptors) + 1}}]

NextTable ==
    \/ Start(DTable)
    \/ ReadSignature(DTable)
    \/ ReadVersion(DTable)
    \/ ReadHeader(DTable)
    \/ ReadDescriptor(DTable)
    \/ DescriptorsDone
    \/ ReadThreadHeader(DTable)
    \/ ReadBlockCount(DTable)
    \/ ReadBlock(DTable)
    \/ Progress90
    \/ EnterRoots
    \/ RootPlain
    \/ FinalStore
    \/ StartEncode(DTable)
    \/ EncodeRange(DTable)
    \/ EncodeHeader
    \/ EncodeThread
    \/ EncodeReturn

SpecTable == Init /\ [][NextTable]_vars

\* C20: the descriptor section written by encode holds a record for the table
\* index i, i < descriptor_count, exactly when the entry's stored id equals i.
WrittenDescriptorsAreOwnIndex ==
    out.written =>
        \A i \in 0..(window.descriptors_count - 1) :
            (\E r \in 1..Len(out.descriptors) : out.descriptors[r].index = i)
            <=> (/\ i < Len(descriptors)
                 /\ ~descriptors[i + 1].null
                 /\ descriptors[i + 1].id = i)

(***************************************************************************)
(* Encode of nested trees: one thread section of up to MaxSubtreeBlocks    *)
(* block records with pairwise different (begin, end), decoded and then    *)
(* encoded with a window.                                                  *)
(***************************************************************************)
MaxSubtreeBlocks == 3
SubtreeTimes == {0, 10, 40, 90, 100}

DSubtree ==
    [DTree EXCEPT
       !.headers = {[h EXCEPT !.memory_size = MaxSubtreeBlocks,
                              !.total_blocks_number = MaxSubtreeBlocks] : h \in @},
       !.countIns = {[eofAt |-> "none", count |-> c] : c \in 1..MaxSubtreeBlocks},
       !.blockIns = {b \in @ : /\ b.begin \in SubtreeTimes /\ b.end \in SubtreeTimes
                               /\ \A k \in 1..Len(consumed) :
                                      consumed[k].begin # b.begin \/ consumed[k].end # b.end}]
    @@ [windows |-> {[begin_time |-> 40, end_time |-> 90],
                     [begin_time |-> 0, end_time |-> 10]},
        garbage |-> {0}]

NextSubtree ==
    \/ Start(DSubtree)
    \/ ReadSignature(DSubtree)
    \/ ReadVersion(DSubtree)
    \/ ReadHeader(DSubtree)
    \/ ReadDescriptor(DSubtree)
    \/ DescriptorsDone
    \/ ReadThreadHeader(DSubtree)
    \/ ReadBlockCount(DSubtree)
    \/ ReadBlock(DSubtree)
    \/ Progress90
    \/ EnterRoots
    \/ RootPlain
    \/ FinalStore
    \/ StartEncode(DSubtree)
    \/ EncodeRange(DSubtree)
    \/ EncodeHeader
    \/ EncodeThread
    \/ EncodeReturn

SpecSubtree == Init /\ [][NextSubtree]_vars

\* the block indices of the subtree below (and including) block k
RECURSIVE Subtree(_)
Subtree(k) ==
    {k} \cup UNION {Subtree(Blk(blocks, k).children[c]) :
                    c \in 1..Len(Blk(blocks, k).children)}

\* the positions of a written section's block records that carry block k
WrittenAs(th, k) ==
    {r \in 1..Len(th.blocks) : /\ th.blocks[r].begin = Blk(blocks, k).begin
                               /\ th.blocks[r].end = Blk(blocks, k).end}

\* C21: every block of the subtree of a selected top-level block is written
\* exactly once, whatever its timestamps, and the block count in front of a
\* thread's records is the number of block records written for it.
SelectedSubtreesWrittenWhole ==
    \A t \in 1..Len(out.threads) :
        /\ out.threads[t].blocks_count = Len(out.threads[t].blocks)
        /\ \A p \in (ranges[out.threads[t].id].blocks.begin + 1)
                    ..ranges[out.threads[t].id].blocks.end :
               \A k \in Subtree(threaded_trees[out.threads[t].id].children[p]) :
                   Cardinality(WrittenAs(out.threads[t], k)) = 1

\* a descendant that lies wholly outside the window has been written
DescendantOutsideWindowWritten ==
    \E t \in 1..Len(out.threads) :
        \E p \in (ranges[out.threads[t].id].blocks.begin + 1)
                 ..ranges[out.threads[t].id].blocks.end :
            \E k \in Subtree(threaded_trees[out.threads[t].id].children[p]) :
                /\ k # threaded_trees[out.threads[t].id].children[p]
                /\ Blk(blocks, k).end < window.begin_time
                /\ WrittenAs(out.threads[t], k) # {}

(***************************************************************************)
(* The lifetime of the statistics objects.  A node gives up a reference    *)
(* with release_stats (lines 231-240); an object whose calls_number has    *)
(* come down to 0 has been deleted.  The streams: one thread section with  *)
(* at most one context switch and up to MaxReleaseBlocks blocks, decoded   *)
(* with statistics; afterwards the nodes release their references in any   *)
(* order.                                                                  *)
(***************************************************************************)
\* release_stats that forgets the decrement
release_stats_keep(S, _stats) ==
    [stats |-> S, ptr |-> 0]

\* release_stats(_stats): the heap and the caller's pointer afterwards
release_stats(S, _stats) ==
    IF _stats = 0
    THEN [stats |-> S, ptr |-> _stats]
    ELSE [stats |-> [S EXCEPT ![_stats].calls_number = @ - 1], ptr |-> 0]

StatsFields == {"per_thread_stats", "per_parent_stats", "per_frame_stats"}

\* a node of the decoded model releases one of its statistics pointers
ReleaseStats ==
    /\ pc = "done" /\ op = "decode"
    /\ \E k \in 1..Len(blocks), f \in StatsFields :
        /\ stats' = release_stats(stats, blocks[k][f]).stats
        /\ blocks' = [blocks EXCEPT ![k][f] = release_stats(stats, blocks[k][f]).ptr]
    /\ UNCHANGED <<op, pc, progress, result, err, eof, bytesRead, hdrVars,
                   gather_statistics, descVars, poolI, read_number, threshold,
                   blocks_counter, threaded_trees, thread_id, sections,
                   identification_table, consumed, per_thread_statistics,
                   per_thread_statistics_cs, parent_statistics, frame_statistics,
                   rootVars, cancelled, encVars>>

MaxReleaseBlocks == 2

DRelease ==
    [DStats EXCEPT
       !.headers = {[h EXCEPT !.memory_size = MaxReleaseBlocks + 1,
                              !.total_blocks_number = MaxReleaseBlocks + 1] : h \in @},
       !.threadIns = {[eofAt |-> "none", thread_id |-> 1, name |-> "", count |-> c] :
                      c \in {0, 1}}
                     \cup {[eofAt |-> "thread_id", thread_id |-> 0, name |-> "", count |-> 0]},
       !.countIns = {[eofAt |-> "none", count |-> c] : c \in 1..MaxReleaseBlocks},
       !.blockIns = {b \in @ : b.begin # 50}]
    @@ [csIns |-> {[eofAt |-> "none", sz |-> 1, begin |-> 0, end |-> 10, name |-> ""]}]

NextRelease ==
    \/ Start(DRelease)
    \/ ReadSignature(DRelease)
    \/ ReadVersion(DRelease)
    \/ ReadHeader(DRelease)
    \/ ReadDescriptor(DRelease)
    \/ DescriptorsDone
    \/ ReadThreadHeader(DRelease)
    \/ ReadCSwitch(DRelease)
    \/ ReadBlockCount(DRelease)
    \/ ReadBlock(DRelease)
    \/ Progress90
    \/ EnterRoots
    \/ Worker
    \/ Join
    \/ FinalStore
    \/ ReleaseStats

SpecRelease == Init /\ [][NextRelease]_vars

\* the (node, field) pairs that hold a pointer to the statistics object p
Holders(p) == {h \in (1..Len(blocks)) \X StatsFields : blocks[h[1]][h[2]] = p}

\* C22: the calls_number of every statistics object is the number of node
\* fields that point to it, during decode and while the nodes release their
\* references: an object is deleted (calls_number 0) exactly when its last
\* holder has released it, and no node keeps a pointer to a deleted object.
\* release_stats of a null pointer changes nothing and leaves the pointer null.
CallsNumberCountsHolders ==
    /\ \A p \in 1..Len(stats) : stats[p].calls_number = Cardinality(Holders(p))
    /\ \A k \in 1..Len(blocks), f \in StatsFields :
           blocks[k][f] \in 0..Len(stats)
    /\ release_stats(stats, 0) = [stats |-> stats, ptr |-> 0]

\* an object that counted two occurrences (durations 10 and 30) has been
\* released by one of its two holders and is still alive for the other
SharedObjectReleasedOnce ==
    /\ pc = "done" /\ result # 0
    /\ \E p \in 1..Len(stats) :
        /\ stats[p].total_duration = 40
        /\ stats[p].calls_number = 1
        /\ Cardinality(Holders(p)) = 1

(***************************************************************************)
(* The statistics workers: two thread sections, each with at most one      *)
(* context switch and up to MaxWorkerBlocks blocks, decoded with           *)
(* statistics.  A Worker step is the whole run of one worker; the formulas *)
(* below compare what it wrote with what belongs to its thread.            *)
(***************************************************************************)
MaxWorkerBlocks == 2

DWorkers ==
    [ops |-> {"decode"},
     gather |-> {TRUE},
     signatures |-> {PROFILER_SIGNATURE},
     versions |-> {EASY_CURRENT_VERSION},
     headers |-> {[pid |-> 1, cpu_frequency |-> 0, begin_time |-> 0, end_time |-> 100,
                   memory_size |-> 2 * (MaxWorkerBlocks + 1),
                   descriptors_memory_size |-> 1,
                   total_blocks_number |-> 2 * (MaxWorkerBlocks + 1),
                   total_descriptors_number |-> 1]},
     descs |-> {[eofAt |-> "none", sz |-> 1, id |-> 0, type |-> "Block"]},
     threadIns |-> {[eofAt |-> "none", thread_id |-> t, name |-> "", count |-> c] :
                    t \in {1, 2}, c \in {0, 1}}
                   \cup {[eofAt |-> "thread_id", thread_id |-> 0, name |-> "", count |-> 0]},
     csIns |-> {[eofAt |-> "none", sz |-> 1, begin |-> 0, end |-> 10, name |-> ""]},
     countIns |-> {[eofAt |-> "none", count |-> c] : c \in 1..MaxWorkerBlocks},
     blockIns |-> {[eofAt |-> "none", sz |-> 1, id |-> 0, begin |-> t[1], end |-> t[2],
                    name |-> ""] : t \in {<<0, 10>>, <<0, 40>>}},
     maxSections |-> 2]

NextWorkers ==
    \/ Start(DWorkers)
    \/ ReadSignature(DWorkers)
    \/ ReadVersion(DWorkers)
    \/ ReadHeader(DWorkers)
    \/ ReadDescriptor(DWorkers)
    \/ DescriptorsDone
    \/ ReadThreadHeader(DWorkers)
    \/ ReadCSwitch(DWorkers)
    \/ ReadBlockCount(DWorkers)
    \/ ReadBlock(DWorkers)
    \/ Progress90
    \/ EnterRoots
    \/ Worker
    \/ Join
    \/ FinalStore

SpecWorkers == Init /\ [][NextWorkers]_vars

\* the block indices of a thread: its context switches and its forest
OwnedBy(t) ==
    Range(threaded_trees[t].sync)
    \cup UNION {Subtree(threaded_trees[t].children[c]) :
                c \in 1..Len(threaded_trees[t].children)}

\* a node as the code outside the workers sees it: all but the two pointers
\* the workers assign
WithoutWorkerFields(b) == [b EXCEPT !.per_parent_stats = 0, !.per_frame_stats = 0]

\* the blocks with the pointers the workers assign taken out of every node
\* that is not of thread t
ForeignFieldsHidden(t) ==
    [k \in 1..Len(blocks) |->
        IF (k - 1) \in OwnedBy(t) THEN blocks[k] ELSE WithoutWorkerFields(blocks[k])]

\* what the worker of thread t computes from the blocks bs
WorkerOver(t, bs) ==
    RootFrames(stats, parent_statistics[t], EmptyMap, bs, threaded_trees[t], 1, 0)

\* the worker of thread t has run in this step
WorkerRan(t) == t \in pending /\ pending' = pending \ {t}

\* C23: the block indices of two distinct thread ids are disjoint; a worker
\* writes only nodes of its own thread (and only their per_parent_stats and
\* per_frame_stats), only its own ThreadRoot and maps, and no statistics object
\* that existed before it ran; what it computes does not depend on a pointer
\* another worker assigns; decode returns only after every worker has been
\* joined.
WorkersShareNothing ==
    /\ [](\A t \in pending :
              /\ WorkerOver(t, blocks).root = WorkerOver(t, ForeignFieldsHidden(t)).root
              /\ WorkerOver(t, blocks).stats = WorkerOver(t, ForeignFieldsHidden(t)).stats
              /\ \A k \in OwnedBy(t) :
                     Blk(WorkerOver(t, blocks).blocks, k)
                         = Blk(WorkerOver(t, ForeignFieldsHidden(t)).blocks, k))
    /\ [](\A t, u \in DOMAIN threaded_trees :
              t # u => OwnedBy(t) \cap OwnedBy(u) = {})
    /\ []((pc = "done" /\ err = "" /\ gather_statistics)
              => pending = {} /\ joined = Len(joinOrder))
    /\ [][\A t \in DOMAIN threaded_trees :
              WorkerRan(t) =>
                  /\ Len(blocks') = Len(blocks)
                  /\ \A k \in 1..Len(blocks) :
                         /\ WithoutWorkerFields(blocks'[k]) = WithoutWorkerFields(blocks[k])
                         /\ blocks'[k] # blocks[k] => (k - 1) \in OwnedBy(t)
                  /\ SubSeq(stats', 1, Len(stats)) = stats
                  /\ \A u \in DOMAIN threaded_trees \ {t} :
                         /\ threaded_trees'[u] = threaded_trees[u]
                         /\ parent_statistics'[u] = parent_statistics[u]
                         /\ frame_statistics'[u] = frame_statistics[u]]_vars

\* two workers have run, each over a thread with a context switch and a frame,
\* and decode has returned
TwoWorkersJoined ==
    /\ pc = "done" /\ err = "" /\ gather_statistics
    /\ Cardinality(DOMAIN threaded_trees) = 2
    /\ \A t \in DOMAIN threaded_trees :
           /\ threaded_trees[t].sync # <<>>
           /\ threaded_trees[t].children # <<>>
           /\ \A c \in 1..Len(threaded_trees[t].sync) :
                  Blk(blocks, threaded_trees[t].sync[c]).per_frame_stats # 0

(***************************************************************************)
(* Decode under cancellation: the streams of DFull, good or bad in         *)
(* signature and version, with an external writer that may store a         *)
(* negative progress once; one thread id, block records of duration 1.     *)
(***************************************************************************)
DCancel ==
    [DFull EXCEPT !.ops = {"decode"},
                  !.gather = {FALSE},
                  !.threadIns = {in \in @ : in.thread_id <= 1},
                  !.blockIns = {b \in @ : b.end - b.begin = 1},
                  !.maxSections = 1]

NextCancel ==
    \/ Start(DCancel)
    \/ ReadSignature(DCancel)
    \/ ReadVersion(DCancel)
    \/ ReadHeader(DCancel)
    \/ ReadDescriptor(DCancel)
    \/ DescriptorsDone
    \/ ReadThreadHeader(DCancel)
    \/ ReadCSwitch(DCancel)
    \/ ReadBlockCount(DCancel)
    \/ ReadBlock(DCancel)
    \/ Progress90
    \/ EnterRoots
    \/ RootPlain
    \/ FinalStore
    \/ Cancel

SpecCancel == Init /\ [][NextCancel]_vars

\* decode has returned through one of its `return 0` statements
DecodeFailed == pc = "done" /\ op = "decode" /\ err # ""

ContainersEmpty == descriptors = <<>> /\ blocks = <<>> /\ DOMAIN threaded_trees = {}

ReadingPositions == {"signature", "version", "header", "descriptors", "thread",
                     "cswitches", "blocks"}

\* C25: a checkpoint of decode that finds the progress cell negative makes
\* decode return at once, and after it decode reads no further byte.
NoReadAfterObservedCancel ==
    /\ [][(op = "decode" /\ pc \in ReadingPositions /\ progress < 0 /\ progress' # progress)
              => (pc' = "done" /\ result' = 0 /\ err' = "interrupted")]_vars
    /\ []((op = "decode" /\ err = "interrupted") => (pc = "done" /\ ~ENABLED NextCancel))
    /\ [][(op = "decode" /\ err = "interrupted") => bytesRead' = bytesRead]_vars

\* decode has returned on a cancellation seen in the block loop while the
\* section still had records to read
CancelSeenBeforeSectionEnd ==
    /\ pc = "done" /\ op = "decode" /\ err = "interrupted" /\ result = 0
    /\ cancelled = "blocks" /\ ~eof /\ read_number < threshold

(***************************************************************************)
(* The children a new record takes from the thread root (checked under     *)
(* SpecTree, whose records begin and end at any two points of TreeTimes)   *)
(***************************************************************************)
\* the step attaches a new node to the tree of the section being read
AttachesNode ==
    /\ pc = "blocks" /\ blocks_counter' = blocks_counter + 1
    /\ Len(blocks') = Len(blocks) + 1

\* the root's children before the step, and the node the step has added
RootChildrenBefore == threaded_trees[thread_id].children
NodeAdded == blocks'[Len(blocks')]

\* the new record begins strictly before the end of the last root child
BeginsBeforeLastEnds ==
    /\ RootChildrenBefore # <<>>
    /\ NodeAdded.begin < Blk(blocks, RootChildrenBefore[Len(RootChildrenBefore)]).end

\* the first position of the maximal run of root children that ends at position
\* upto and whose begins are all >= b
RunStart(upto, b) ==
    LET early == {q \in 1..upto : Blk(blocks, RootChildrenBefore[q]).begin < b}
    IN  IF early = {} THEN 1
        ELSE 1 + CHOOSE q \in early : \A r \in early : r <= q

\* the step moved the root children from position p on into the new node, in
\* their order, and left the others in the root, followed by the new node
MovedFrom(p) ==
    /\ NodeAdded.children = SubSeq(RootChildrenBefore, p, Len(RootChildrenBefore))
    /\ threaded_trees'[thread_id].children =
           Append(SubSeq(RootChildrenBefore, 1, p - 1), blocks_counter)

\* C26 as stated: the records moved are exactly the maximal trailing run of
\* root children whose begin >= R.begin.
MovedChildrenAreTrailingRun ==
    [][(AttachesNode /\ BeginsBeforeLastEnds)
           => MovedFrom(RunStart(Len(RootChildrenBefore), NodeAdded.begin))]_vars

\* C26: the records moved are the last root child, whatever its begin, and
\* before it the maximal run of root children whose begin >= R.begin, in their
\* original order; no other root child is moved.
MovedChildrenAreLastAndRun ==
    [][(AttachesNode /\ BeginsBeforeLastEnds)
           => MovedFrom(RunStart(Len(RootChildrenBefore) - 1, NodeAdded.begin))]_vars

\* a node has taken a last root child that begins before the node does, and an
\* earlier root child has stayed in the root
LastChildMovedDespiteBegin ==
    \E k \in 1..Len(blocks) :
        /\ blocks[k].children # <<>>
        /\ Blk(blocks, blocks[k].children[Len(blocks[k].children)]).begin < blocks[k].begin
        /\ Len(threaded_trees[1].children) >= 2
        /\ threaded_trees[1].children[Len(threaded_trees[1].children)] = k - 1

(***************************************************************************)
(* The children lists as a partition of the attached blocks (checked under *)
(* SpecWorkers: two sections, of the same thread id or of two)             *)
(***************************************************************************)
\* how often the block index k occurs in a children list
TimesIn(list, k) == Cardinality({p \in 1..Len(list) : list[p] = k})

\* the children lists that hold the block index k: thread roots and nodes
ListsHolding(k) ==
    {<<"root", t>> : t \in {t \in DOMAIN threaded_trees :
                              TimesIn(threaded_trees[t].children, k) > 0}}
    \cup {<<"node", n>> : n \in {n \in 1..Len(blocks) : TimesIn(blocks[n].children, k) > 0}}

ListOf(h) == IF h[1] = "root" THEN threaded_trees[h[2]].children ELSE blocks[h[2]].children

\* the nodes of a thread's forest
ForestOf(t) ==
    UNION {Subtree(threaded_trees[t].children[c]) :
           c \in 1..Len(threaded_trees[t].children)}

\* C27: while decode has not failed, every attached block index of a thread is
\* in exactly one children list, once, and within the forest of its thread;
\* root.blocks_number is the number of nodes of that forest; the children list
\* of a node never changes once the node exists, so a moved block is not moved
\* again.
ChildrenListsPartitionBlocks ==
    /\ [](err = "" =>
            /\ \A c \in 1..Len(consumed) :
                   (consumed[c].kind = "block" /\ consumed[c].index # NoParent) =>
                       /\ Cardinality(ListsHolding(consumed[c].index)) = 1
                       /\ \A h \in ListsHolding(consumed[c].index) :
                              TimesIn(ListOf(h), consumed[c].index) = 1
                       /\ consumed[c].index \in ForestOf(consumed[c].thread)
            /\ \A t \in DOMAIN threaded_trees :
                   threaded_trees[t].blocks_number = Cardinality(ForestOf(t)))
    /\ [][\A n \in 1..Len(blocks) : blocks'[n].children = blocks[n].children]_vars

\* a thread whose three blocks came in two sections forms a chain: the first
\* block was moved into the second, and the second into the third
MovedBlockUnderMovedBlock ==
    \E t \in DOMAIN threaded_trees :
        /\ threaded_trees[t].blocks_number = 3
        /\ Len(threaded_trees[t].children) = 1
        /\ Blk(blocks, threaded_trees[t].children[1]).depth = 2
        /\ sections = 2

(***************************************************************************)
(* Node depths: the chains of SpecChain, decoded with or without           *)
(* statistics; among the first LeafPrefix records a record may instead be  *)
(* an instant block after everything read so far, which becomes a sibling  *)
(* and then a child, next to the chain, of the following chain block.      *)
(* With statistics the section is either short (up to LeafPrefix + 1       *)
(* records) or the plain chain of MaxChain blocks.                         *)
(***************************************************************************)
LeafPrefix == 3

DDepth ==
    [DChain EXCEPT
       !.gather = BOOLEAN,
       !.countIns = {[eofAt |-> "none", count |-> c] : c \in 1..(LeafPrefix + 1)}
                    \cup (IF gather_statistics
                          THEN {[eofAt |-> "none", count |-> MaxChain]}
                          ELSE @),
       !.blockIns = @ \cup (IF /\ read_number < LeafPrefix
                               /\ (~gather_statistics \/ threshold <= LeafPrefix + 1)
                            THEN {[eofAt |-> "none", sz |-> 1, id |-> 0,
                                   begin |-> MaxChain + 1 + read_number,
                                   end |-> MaxChain + 1 + read_number, name |-> ""]}
                            ELSE {})]

NextDepth ==
    \/ Start(DDepth)
    \/ ReadSignature(DDepth)
    \/ ReadVersion(DDepth)
    \/ ReadHeader(DDepth)
    \/ ReadDescriptor(DDepth)
    \/ DescriptorsDone
    \/ ReadThreadHeader(DDepth)
    \/ ReadBlockCount(DDepth)
    \/ ReadBlock(DDepth)
    \/ Progress90
    \/ EnterRoots
    \/ Worker
    \/ Join
    \/ RootPlain
    \/ FinalStore

SpecDepth == Init /\ [][NextDepth]_vars

\* the depths of the children of block k
ChildDepths(k) ==
    {Blk(blocks, Blk(blocks, k).children[c]).depth : c \in 1..Len(Blk(blocks, k).children)}

\* C28: in a decode that has not failed, with or without statistics, the
\* depth of a node without children is 0, the depth of any other node is 1 +
\* the greatest depth among its children, and every depth lies in 0..254.
NodeDepthIsOneMoreThanChildren ==
    err = "" =>
        \A k \in 0..(Len(blocks) - 1) :
            /\ Blk(blocks, k).depth \in 0..254
            /\ IF Blk(blocks, k).children = <<>>
               THEN Blk(blocks, k).depth = 0
               ELSE /\ Blk(blocks, k).depth - 1 \in ChildDepths(k)
                    /\ \A d \in ChildDepths(k) : d <= Blk(blocks, k).depth - 1

\* a decode has succeeded with a node of depth 254 and a node whose two
\* children differ in depth
DeepestTreeDecoded ==
    /\ pc = "done" /\ err = "" /\ result # 0
    /\ \E k \in 0..(Len(blocks) - 1) : Blk(blocks, k).depth = 254
    /\ \E k \in 0..(Len(blocks) - 1) : Cardinality(ChildDepths(k)) = 2

(***************************************************************************)
(* The max- and min-duration references of the per-thread block            *)
(* statistics (checked under SpecStats)                                    *)
(***************************************************************************)
\* the duration of the occurrence read as the n-th record
OccurrenceDuration(n) == Duration(Blk(blocks, consumed[n].index))

\* the first-processed occurrence of id K with the greatest duration
FirstGreatest(K) ==
    CHOOSE n \in Occurrences(consumed, Len(consumed), K) :
        \A m \in Occurrences(consumed, Len(consumed), K) :
            \/ OccurrenceDuration(m) < OccurrenceDuration(n)
            \/ (OccurrenceDuration(m) = OccurrenceDuration(n) /\ n <= m)

\* the first-processed occurrence of id K with the smallest duration
FirstSmallest(K) ==
    CHOOSE n \in Occurrences(consumed, Len(consumed), K) :
        \A m \in Occurrences(consumed, Len(consumed), K) :
            \/ OccurrenceDuration(m) > OccurrenceDuration(n)
            \/ (OccurrenceDuration(m) = OccurrenceDuration(n) /\ n <= m)

\* C29: for every key of the per-thread block statistics map,
\* max_duration_block is the block index of the first-processed occurrence
\* with the greatest duration among the occurrences counted so far, and
\* min_duration_block that of the first-processed occurrence with the smallest.
MaxMinReferFirstExtreme ==
    \A K \in DOMAIN per_thread_statistics :
        /\ Occurrences(consumed, Len(consumed), K) # {}
        /\ stats[per_thread_statistics[K]].max_duration_block
               = consumed[FirstGreatest(K)].index
        /\ stats[per_thread_statistics[K]].min_duration_block
               = consumed[FirstSmallest(K)].index

\* three occurrences of one id have been counted: the first is the shortest,
\* the second and the third tie for the greatest duration
TieForGreatestKeepsFirst ==
    \E K \in DOMAIN per_thread_statistics :
        /\ stats[per_thread_statistics[K]].calls_number = 3
        /\ \E a, b \in Occurrences(consumed, Len(consumed), K) :
               /\ a < b /\ a = FirstGreatest(K)
               /\ OccurrenceDuration(a) = OccurrenceDuration(b)
               /\ FirstSmallest(K) < a
        /\ stats[per_thread_statistics[K]].max_duration_block
               # stats[per_thread_statistics[K]].min_duration_block

(***************************************************************************)
(* Context-switch statistics: two thread sections with up to MaxSwitches   *)
(* context switches each and one frame, decoded with gather_statistics.    *)
(***************************************************************************)
MaxSwitches == 2

DSwitches ==
    [DWorkers EXCEPT
        !.headers = {[pid |-> 1, cpu_frequency |-> 0, begin_time |-> 0, end_time |-> 100,
                      memory_size |-> 2 * (MaxSwitches + 1),
                      descriptors_memory_size |-> 1,
                      total_blocks_number |-> 2 * (MaxSwitches + 1),
                      total_descriptors_number |-> 1]},
        !.threadIns = {[eofAt |-> "none", thread_id |-> t, name |-> "", count |-> c] :
                       t \in {1, 2}, c \in 0..MaxSwitches}
                      \cup {[eofAt |-> "thread_id", thread_id |-> 0, name |-> "",
                             count |-> 0]},
        !.csIns = {[eofAt |-> "none", sz |-> 1, begin |-> t[1], end |-> t[2],
                    name |-> ""] : t \in {<<0, 10>>, <<10, 40>>, <<40, 50>>}},
        !.countIns = {[eofAt |-> "none", count |-> 1]},
        !.blockIns = {[eofAt |-> "none", sz |-> 1, id |-> 0, begin |-> 0, end |-> 100,
                       name |-> ""]}]

NextSwitches ==
    \/ Start(DSwitches)
    \/ ReadSignature(DSwitches)
    \/ ReadVersion(DSwitches)
    \/ ReadHeader(DSwitches)
    \/ ReadDescriptor(DSwitches)
    \/ DescriptorsDone
    \/ ReadThreadHeader(DSwitches)
    \/ ReadCSwitch(DSwitches)
    \/ ReadBlockCount(DSwitches)
    \/ ReadBlock(DSwitches)
    \/ Progress90
    \/ EnterRoots
    \/ Worker
    \/ Join
    \/ FinalStore

SpecSwitches == Init /\ [][NextSwitches]_vars

\* the block indices of the context-switch records
CsIndices == UNION {Range(threaded_trees[t].sync) : t \in DOMAIN threaded_trees}

\* the context switches whose pointer f refers to the object p: the records
\* counted into p
CountedInto(f, p) == {j \in CsIndices : Blk(blocks, j)[f] = p}

\* the context-switch statistics objects reached through the pointer f
CsObjects(f) == {Blk(blocks, j)[f] : j \in CsIndices} \ {0}

\* the update rule, for the objects reached through f
CsObjectsFollowRule(f) ==
    \A p \in CsObjects(f) :
        /\ stats[p].calls_number = Cardinality(CountedInto(f, p))
        /\ stats[p].max_duration_block \in CountedInto(f, p)
        /\ stats[p].min_duration_block \in CountedInto(f, p)
        /\ \A j \in CountedInto(f, p) :
               /\ Duration(Blk(blocks, j))
                      <= Duration(Blk(blocks, stats[p].max_duration_block))
               /\ Duration(Blk(blocks, j))
                      >= Duration(Blk(blocks, stats[p].min_duration_block))

\* C30: in every context-switch statistics object, per-thread and per-frame,
\* calls_number is the number of context switches counted into it, and
\* max_duration_block and min_duration_block are block indices of context
\* switches counted into it that have the greatest and the smallest duration
\* among them.
CsStatisticsFollowUpdateRule ==
    /\ CsObjectsFollowRule("per_thread_stats")
    /\ CsObjectsFollowRule("per_frame_stats")

(***************************************************************************)
(* Per-parent and per-frame statistics: a first thread section of up to    *)
(* MaxFrameBlocks blocks of two descriptors, followed by a section of one  *)
(* block of the same or of another thread, decoded with gather_statistics. *)
(***************************************************************************)
MaxFrameBlocks == 3

DFrames ==
    [DStats EXCEPT
        !.headers = {[pid |-> 1, cpu_frequency |-> 0, begin_time |-> 0, end_time |-> 100,
                      memory_size |-> MaxFrameBlocks + 1, descriptors_memory_size |-> 2,
                      total_blocks_number |-> MaxFrameBlocks + 1,
                      total_descriptors_number |-> 2]},
        !.threadIns = {[eofAt |-> "none", thread_id |-> t, name |-> "", count |-> 0] :
                       t \in {1, 2}}
                      \cup {[eofAt |-> "thread_id", thread_id |-> 0, name |-> "",
                             count |-> 0]},
        !.countIns = IF sections <= 1
                     THEN {[eofAt |-> "none", count |-> c] : c \in 1..MaxFrameBlocks}
                     ELSE {[eofAt |-> "none", count |-> 1]},
        !.blockIns = IF sections <= 1
                     THEN {[eofAt |-> "none", sz |-> 1, id |-> k, begin |-> t[1],
                            end |-> t[2], name |-> ""] :
                           k \in {0, 1}, t \in {<<0, 10>>, <<10, 40>>, <<0, 100>>}}
                     ELSE {[eofAt |-> "none", sz |-> 1, id |-> 0, begin |-> t[1],
                            end |-> t[2], name |-> ""] :
                           t \in {<<40, 50>>, <<0, 100>>}},
        !.maxSections = 2]

NextFrames ==
    \/ Start(DFrames)
    \/ ReadSignature(DFrames)
    \/ ReadVersion(DFrames)
    \/ ReadHeader(DFrames)
    \/ ReadDescriptor(DFrames)
    \/ DescriptorsDone
    \/ ReadThreadHeader(DFrames)
    \/ ReadBlockCount(DFrames)
    \/ ReadBlock(DFrames)
    \/ Progress90
    \/ EnterRoots
    \/ Worker
    \/ Join
    \/ FinalStore

SpecFrames == Init /\ [][NextFrames]_vars

\* decode has returned its block count after gathering statistics
DecodedWithStatistics ==
    op = "decode" /\ pc = "done" /\ err = "" /\ gather_statistics

\* the nodes of all threads
AllNodes == UNION {ForestOf(t) : t \in DOMAIN threaded_trees}

\* the sum of the durations of a set of nodes
RECURSIVE SumOver(_)
SumOver(set) ==
    IF set = {} THEN 0
    ELSE Duration(Blk(blocks, CHOOSE k \in set : TRUE))
         + SumOver(set \ {CHOOSE k \in set : TRUE})

\* the siblings of node k (k included) that have k's descriptor id
SiblingsWithId(k) ==
    {j \in UNION {Range(ListOf(h)) : h \in ListsHolding(k)} :
        Blk(blocks, j).id = Blk(blocks, k).id}

\* C31: after a decode with statistics gathering, the per_parent_stats of every
\* node N counts the siblings of N (N included) that have N's descriptor id and
\* sums their durations; nodes with different parents never share a per-parent
\* statistics object.
PerParentStatisticsExact ==
    DecodedWithStatistics =>
        \A k \in AllNodes :
            /\ Blk(blocks, k).per_parent_stats # 0
            /\ stats[Blk(blocks, k).per_parent_stats].calls_number
                   = Cardinality(SiblingsWithId(k))
            /\ stats[Blk(blocks, k).per_parent_stats].total_duration
                   = SumOver(SiblingsWithId(k))
            /\ \A j \in AllNodes :
                   Blk(blocks, j).per_parent_stats = Blk(blocks, k).per_parent_stats
                       => ListsHolding(j) = ListsHolding(k)

\* two children of one node have the same descriptor and share an object with
\* calls_number 2, while a top-level node has that descriptor too
SameIdUnderDifferentParents ==
    /\ DecodedWithStatistics
    /\ \E k, j, m \in AllNodes :
           /\ k # j /\ Blk(blocks, k).id = Blk(blocks, j).id
           /\ Blk(blocks, m).id = Blk(blocks, k).id
           /\ \E n \in 1..Len(blocks) :
                  ListsHolding(k) = {<<"node", n>>} /\ ListsHolding(j) = {<<"node", n>>}
           /\ \E t \in DOMAIN threaded_trees : ListsHolding(m) = {<<"root", t>>}
           /\ stats[Blk(blocks, k).per_parent_stats].calls_number = 2

\* the nodes with k's descriptor id in the subtree of the frame F
SameIdInFrame(F, k) == {j \in Subtree(F) : Blk(blocks, j).id = Blk(blocks, k).id}

\* the immediate children of a set of nodes
ChildrenOf(set) == UNION {Range(Blk(blocks, j).children) : j \in set}

\* the top-level frames of all threads
Frames == UNION {Range(threaded_trees[t].children) : t \in DOMAIN threaded_trees}

\* C32: after a decode with statistics gathering, for every top-level frame F
\* and every node of F's subtree, the node's per-frame statistics object counts
\* the nodes of F's subtree with the node's descriptor id, sums their durations
\* in total_duration and the durations of their immediate children in
\* total_children_duration; nodes of different frames never share an object.
PerFrameStatisticsExact ==
    DecodedWithStatistics =>
        \A F \in Frames : \A k \in Subtree(F) :
            /\ Blk(blocks, k).per_frame_stats # 0
            /\ stats[Blk(blocks, k).per_frame_stats].calls_number
                   = Cardinality(SameIdInFrame(F, k))
            /\ stats[Blk(blocks, k).per_frame_stats].total_duration
                   = SumOver(SameIdInFrame(F, k))
            /\ stats[Blk(blocks, k).per_frame_stats].total_children_duration
                   = SumOver(ChildrenOf(SameIdInFrame(F, k)))
            /\ \A j \in AllNodes :
                   Blk(blocks, j).per_frame_stats = Blk(blocks, k).per_frame_stats
                       => j \in SameIdInFrame(F, k)

\* a frame holds its descriptor at two depths, each of the two nodes with a
\* child, and another frame holds a node of the same descriptor
SameIdAtTwoDepthsOfFrame ==
    /\ DecodedWithStatistics
    /\ \E F, G \in Frames : \E k \in Subtree(F) \ {F} :
           /\ F # G
           /\ Blk(blocks, k).id = Blk(blocks, F).id
           /\ Blk(blocks, G).id = Blk(blocks, F).id
           /\ Blk(blocks, k).children # <<>>
           /\ stats[Blk(blocks, F).per_frame_stats].calls_number = 2
           /\ stats[Blk(blocks, F).per_frame_stats].total_children_duration > 0

(***************************************************************************)
(* Decoding with and without statistics.  PlainDecode is the decode of a   *)
(* stream with gather_statistics = false as a function of the records      *)
(* read: the block loops with their else branches (lines 896-903) and the  *)
(* loop over threaded_trees of lines 1016-1047.  The decode of the same    *)
(* records is compared with it for both values of gather_statistics.       *)
(***************************************************************************)
DBoth ==
    [DFrames EXCEPT
        !.gather = BOOLEAN,
        !.headers = {[pid |-> 1, cpu_frequency |-> 0, begin_time |-> 10, end_time |-> 100,
                      memory_size |-> MaxFrameBlocks + 3, descriptors_memory_size |-> 1,
                      total_blocks_number |-> MaxFrameBlocks + 3,
                      total_descriptors_number |-> 1]},
        !.descs = {[eofAt |-> "none", sz |-> 1, id |-> 0, type |-> ty] :
                   ty \in {"Block", "Event"}},
        !.threadIns = {[eofAt |-> "none", thread_id |-> t, name |-> "", count |-> c] :
                       t \in {1, 2}, c \in {0, 1}}
                      \cup {[eofAt |-> "thread_id", thread_id |-> 0, name |-> "",
                             count |-> 0]},
        !.blockIns = IF sections <= 1
                     THEN {[eofAt |-> "none", sz |-> 1, id |-> 0, begin |-> t[1],
                            end |-> t[2], name |-> ""] :
                           t \in {<<0, 5>>, <<0, 20>>, <<20, 40>>, <<0, 100>>}}
                     ELSE {[eofAt |-> "none", sz |-> 1, id |-> 0, begin |-> t[1],
                            end |-> t[2], name |-> ""] :
                           t \in {<<40, 50>>, <<0, 100>>}}]
    @@ [csIns |-> {[eofAt |-> "none", sz |-> 1, begin |-> 0, end |-> 20, name |-> ""]}]

NextBoth ==
    \/ Start(DBoth)
    \/ ReadSignature(DBoth)
    \/ ReadVersion(DBoth)
    \/ ReadHeader(DBoth)
    \/ ReadDescriptor(DBoth)
    \/ DescriptorsDone
    \/ ReadThreadHeader(DBoth)
    \/ ReadCSwitch(DBoth)
    \/ ReadBlockCount(DBoth)
    \/ ReadBlock(DBoth)
    \/ Progress90
    \/ EnterRoots
    \/ Worker
    \/ Join
    \/ RootPlain
    \/ FinalStore

SpecBoth == Init /\ [][NextBoth]_vars

\* the times of a record as lines 745-756 and 825-833 store them
PlainEnd(r) == EASY_CONVERT_TO_NANO(r.end, header.cpu_frequency)
PlainBegin(r) ==
    IF EASY_CONVERT_TO_NANO(r.begin, header.cpu_frequency) < begin_time
    THEN begin_time
    ELSE EASY_CONVERT_TO_NANO(r.begin, header.cpu_frequency)

\* whether the record gets a node
PlainAttached(r) ==
    IF r.kind = "cs" THEN PlainEnd(r) > begin_time ELSE PlainEnd(r) >= begin_time

\* a root before its first record
PlainRoot(acc, t) ==
    IF t \in DOMAIN acc.roots THEN acc.roots[t]
    ELSE [children |-> <<>>, sync |-> <<>>, wait_time |-> 0, blocks_number |-> 0]

\* a context switch: lines 755-756
PlainCSwitch(acc, r) ==
    [blocks |-> Append(acc.blocks, [id |-> 0, begin |-> PlainBegin(r), end |-> PlainEnd(r),
                                    children |-> <<>>, depth |-> 0]),
     roots |-> (r.thread :>
                  [PlainRoot(acc, r.thread) EXCEPT
                      !.sync = Append(@, Len(acc.blocks)),
                      !.wait_time = (@ + ((PlainEnd(r) - PlainBegin(r)) % TimestampModulus))
                                    % TimestampModulus])
               @@ acc.roots]

\* a block that takes the root children after position keep: lines 864-873,
\* 896-903, 918-923
PlainNest(acc, r, root, keep) ==
    [blocks |-> Append(acc.blocks,
                   [id |-> r.id, begin |-> PlainBegin(r), end |-> PlainEnd(r),
                    children |-> SubSeq(root.children, keep + 1, Len(root.children)),
                    depth |-> MaxChildDepth(acc.blocks,
                                            SubSeq(root.children, keep + 1,
                                                   Len(root.children)), 1, 0) + 1]),
     roots |-> (r.thread :>
                  [root EXCEPT !.children = Append(SubSeq(@, 1, keep), Len(acc.blocks)),
                               !.blocks_number = @ + 1])
               @@ acc.roots]

\* a block that takes no child: lines 922-923
PlainLeaf(acc, r, root) ==
    [blocks |-> Append(acc.blocks, [id |-> r.id, begin |-> PlainBegin(r),
                                    end |-> PlainEnd(r), children |-> <<>>, depth |-> 0]),
     roots |-> (r.thread :>
                  [root EXCEPT !.children = Append(@, Len(acc.blocks)),
                               !.blocks_number = @ + 1])
               @@ acc.roots]

PlainBlock(acc, r, root) ==
    IF /\ root.children # <<>>
       /\ PlainBegin(r) < Blk(acc.blocks, root.children[Len(root.children)]).end
    THEN PlainNest(acc, r, root,
                   LowerPos(acc.blocks, root.children, Len(root.children) - 1,
                            PlainBegin(r)))
    ELSE PlainLeaf(acc, r, root)

\* the records log[n..], read after acc was built
RECURSIVE PlainDecode(_, _, _)
PlainDecode(log, n, acc) ==
    IF n > Len(log) THEN acc
    ELSE PlainDecode(log, n + 1,
                     IF ~PlainAttached(log[n]) THEN acc
                     ELSE IF log[n].kind = "cs" THEN PlainCSwitch(acc, log[n])
                     ELSE PlainBlock(acc, log[n], PlainRoot(acc, log[n].thread)))

PlainResult == PlainDecode(consumed, 1, [blocks |-> <<>>, roots |-> EmptyMap])

\* lines 1030-1043 for one root of the plain result
PlainFrames(P, t) ==
    {p \in 1..Len(PlainRoot(P, t).children) :
        descriptors[Blk(P.blocks, PlainRoot(P, t).children[p]).id + 1].type = "Block"}

RECURSIVE PlainProfiled(_, _, _)
PlainProfiled(P, children, k) ==
    IF k > Len(children) THEN 0
    ELSE (Duration(Blk(P.blocks, children[k])) + PlainProfiled(P, children, k + 1))
         % TimestampModulus

\* the node fields that do not point to statistics
ShapeOf(b) == [id |-> b.id, begin |-> b.begin, end |-> b.end, children |-> b.children,
               depth |-> b.depth]

\* decode has returned its block count
DecodeSucceeded == op = "decode" /\ pc = "done" /\ err = "" /\ result # 0

\* what a successful decode returned and built is the plain result
SameAsPlain(P) ==
    /\ result = Len(P.blocks)
    /\ Len(blocks) = Len(P.blocks)
    /\ \A k \in 1..Len(blocks) : ShapeOf(blocks[k]) = P.blocks[k]
    /\ \A t \in DOMAIN threaded_trees :
           /\ threaded_trees[t].children = PlainRoot(P, t).children
           /\ threaded_trees[t].sync = PlainRoot(P, t).sync
           /\ threaded_trees[t].wait_time = PlainRoot(P, t).wait_time
           /\ threaded_trees[t].blocks_number = PlainRoot(P, t).blocks_number
           /\ threaded_trees[t].depth
                  = MaxChildDepth(P.blocks, PlainRoot(P, t).children, 1, 0) + 1
           /\ threaded_trees[t].frames_number = Cardinality(PlainFrames(P, t))
           /\ threaded_trees[t].profiled_time
                  = PlainProfiled(P, PlainRoot(P, t).children, 1)
    /\ DOMAIN P.roots \subseteq DOMAIN threaded_trees

\* C33: a successful decode returns the block count and builds the tree shape
\* (children lists, node depths) and the ThreadRoot depth, frames_number,
\* profiled_time, wait_time and blocks_number that the decode of the same
\* records without statistics gives, whether gather_statistics is true or
\* false: the two decodes of a stream differ only in the statistics pointers.
StatisticsDoNotChangeTheModel ==
    DecodeSucceeded => SameAsPlain(PlainResult)

\* a decode with statistics of two threads has built a node with a child
\* beside another root child, in a thread with a context switch
NestedTreeDecodedWithStatistics ==
    /\ DecodeSucceeded /\ gather_statistics
    /\ Cardinality(DOMAIN threaded_trees) = 2
    /\ \E t \in DOMAIN threaded_trees :
           /\ Len(threaded_trees[t].children) >= 2
           /\ threaded_trees[t].depth >= 2
           /\ threaded_trees[t].sync # <<>>

(***************************************************************************)
(* The order of the block records of a written thread section (checked     *)
(* under SpecSubtree, where a record identifies its node by its times)     *)
(***************************************************************************)
\* the nodes that have a record in the written section th
WrittenNodes(th) == {k \in 0..(Len(blocks) - 1) : WrittenAs(th, k) # {}}

\* the position of node k's record in th
WrittenPos(th, k) == CHOOSE r \in 1..Len(th.blocks) : r \in WrittenAs(th, k)

\* the children lists whose members were written: those of the written nodes
\* and the selected part of the root's
WrittenLists(th) ==
    {Blk(blocks, k).children : k \in WrittenNodes(th)}
    \cup {SubSeq(threaded_trees[th.id].children, ranges[th.id].blocks.begin + 1,
                 ranges[th.id].blocks.end)}

\* the block records of th as a decoder reads them
ReadBack(th) ==
    [n \in 1..Len(th.blocks) |->
        [kind |-> "block", thread |-> th.id, id |-> th.blocks[n].id,
         begin |-> th.blocks[n].begin, end |-> th.blocks[n].end]]

\* the tree the tree builder makes of them
Rebuilt(th) == PlainDecode(ReadBack(th), 1, [blocks |-> <<>>, roots |-> EmptyMap])

\* a children list as block indices of the rebuilt section
AsWritten(th, list) == [c \in 1..Len(list) |-> WrittenPos(th, list[c]) - 1]

\* C34: in a written thread section the record of every node comes after the
\* records of all its descendants, siblings are written in children-list
\* order, and the tree builder makes the same nesting of the records read in
\* that order.
WrittenInCompletionOrder ==
    \A t \in 1..Len(out.threads) :
        /\ \A k \in WrittenNodes(out.threads[t]) : \A d \in Subtree(k) \ {k} :
               /\ d \in WrittenNodes(out.threads[t])
               /\ WrittenPos(out.threads[t], d) < WrittenPos(out.threads[t], k)
        /\ \A list \in WrittenLists(out.threads[t]) : \A p, q \in 1..Len(list) :
               p < q => WrittenPos(out.threads[t], list[p])
                            < WrittenPos(out.threads[t], list[q])
        /\ \A k \in WrittenNodes(out.threads[t]) :
               Rebuilt(out.threads[t]).blocks[WrittenPos(out.threads[t], k)].children
                   = AsWritten(out.threads[t], Blk(blocks, k).children)
        /\ out.threads[t].blocks # <<>> =>
               Rebuilt(out.threads[t]).roots[out.threads[t].id].children
                   = AsWritten(out.threads[t],
                               SubSeq(threaded_trees[out.threads[t].id].children,
                                      ranges[out.threads[t].id].blocks.begin + 1,
                                      ranges[out.threads[t].id].blocks.end))

\* a node and its child have been written, the child first, and the rebuilt
\* section nests them
ParentWrittenAfterChild ==
    \E t \in 1..Len(out.threads) : \E k \in WrittenNodes(out.threads[t]) :
        /\ Blk(blocks, k).children # <<>>
        /\ WrittenPos(out.threads[t], Blk(blocks, k).children[1])
               < WrittenPos(out.threads[t], k)
        /\ Rebuilt(out.threads[t]).blocks[WrittenPos(out.threads[t], k)].children # <<>>

(***************************************************************************)
(* The last store of decode: up to two thread sections of one block each,  *)
(* with and without statistics, while an external writer may store a       *)
(* negative value at any moment.                                           *)
(***************************************************************************)
DFinish ==
    [DWorkers EXCEPT
        !.gather = BOOLEAN,
        !.threadIns = {in \in @ : in.count = 0},
        !.countIns = {[eofAt |-> "none", count |-> 1]},
        !.blockIns = {[eofAt |-> "none", sz |-> 1, id |-> 0, begin |-> 0, end |-> 10,
                       name |-> ""]}]

NextFinish ==
    \/ Start(DFinish)
    \/ ReadSignature(DFinish)
    \/ ReadVersion(DFinish)
    \/ ReadHeader(DFinish)
    \/ ReadDescriptor(DFinish)
    \/ DescriptorsDone
    \/ ReadThreadHeader(DFinish)
    \/ ReadBlockCount(DFinish)
    \/ ReadBlock(DFinish)
    \/ Progress90
    \/ EnterRoots
    \/ Worker
    \/ Join
    \/ RootPlain
    \/ FinalStore
    \/ Cancel

SpecFinish == Init /\ [][NextFinish]_vars

\* C35: when decode runs to completion (no error, no cancellation observed),
\* the last value it stores into the progress cell is 100, for any number of
\* threads in the trace, zero included.
CompletedDecodeStores100 ==
    /\ [][(op = "decode" /\ pc # "done" /\ pc' = "done" /\ err' = "")
              => progress' = 100]_vars
    /\ []((op = "decode" /\ pc = "done" /\ err = "") => progress = 100)

\* a decode of a trace without thread sections has completed
DecodeOfNoThreadsCompleted ==
    /\ op = "decode" /\ pc = "done" /\ err = ""
    /\ DOMAIN threaded_trees = {}
    /\ joinOrder = <<>>

(***************************************************************************)
(* The last store of encode (checked under SpecRestore: two threads)       *)
(***************************************************************************)
\* C36: when encode returns a non-zero block count, the last value it has
\* stored into the progress cell is 100, for any number of threads.
SuccessfulEncodeStores100 ==
    (op = "encode" /\ pc = "done" /\ result # 0) => progress = 100

(***************************************************************************)
(* Short thread sections: one section that declares up to MaxShortRecords  *)
(* context switches and blocks; a record is complete, has length 0, or the *)
(* stream ends at its length or inside its payload.                        *)
(***************************************************************************)
MaxShortRecords == 2

DShort ==
    [DTree EXCEPT
        !.headers = {[h EXCEPT !.memory_size = 4 * MaxShortRecords,
                               !.total_blocks_number = 2 * MaxShortRecords] : h \in @},
        !.threadIns = {[eofAt |-> "none", thread_id |-> 1, name |-> "", count |-> c] :
                       c \in 0..MaxShortRecords}
                      \cup {[eofAt |-> "thread_id", thread_id |-> 0, name |-> "",
                             count |-> 0]},
        !.countIns = {[eofAt |-> "none", count |-> c] : c \in 1..MaxShortRecords}
                     \cup {[eofAt |-> "count", count |-> 0]},
        !.blockIns = {[eofAt |-> "none", sz |-> 1, id |-> 0, begin |-> 0, end |-> 10,
                       name |-> ""],
                      [eofAt |-> "none", sz |-> 0, id |-> 0, begin |-> 0, end |-> 0,
                       name |-> ""],
                      [eofAt |-> "size", sz |-> 0, id |-> 0, begin |-> 0, end |-> 0,
                       name |-> ""],
                      [eofAt |-> "payload", sz |-> 2, id |-> 0, begin |-> 0, end |-> 10,
                       name |-> ""]}]
    @@ [csIns |-> {[eofAt |-> "none", sz |-> 1, begin |-> 0, end |-> 10, name |-> ""],
                   [eofAt |-> "none", sz |-> 0, begin |-> 0, end |-> 0, name |-> ""],
                   [eofAt |-> "size", sz |-> 0, begin |-> 0, end |-> 0, name |-> ""],
                   [eofAt |-> "payload", sz |-> 2, begin |-> 0, end |-> 10, name |-> ""]}]

NextShort ==
    \/ Start(DShort)
    \/ ReadSignature(DShort)
    \/ ReadVersion(DShort)
    \/ ReadHeader(DShort)
    \/ ReadDescriptor(DShort)
    \/ DescriptorsDone
    \/ ReadThreadHeader(DShort)
    \/ ReadCSwitch(DShort)
    \/ ReadBlockCount(DShort)
    \/ ReadBlock(DShort)
    \/ Progress90
    \/ EnterRoots
    \/ RootPlain
    \/ FinalStore

SpecShort == Init /\ [][NextShort]_vars

\* a step that reads a record of a thread section
ReadsSectionRecord ==
    /\ op = "decode" /\ pc \in {"cswitches", "blocks"}
    /\ read_number' = read_number + 1

\* C37: if the stream ends or a record's length is 0 before the declared
\* number of context-switch or block records of a section has been read,
\* decode returns 0.
ShortSectionIsFatal ==
    [][(ReadsSectionRecord /\ (eof' \/ consumed'[Len(consumed')].sz = 0))
           => (pc' = "done" /\ result' = 0 /\ err' # "")]_vars

(***************************************************************************)
(* Records before the begin of the trace: one section of up to             *)
(* MaxClampRecords context switches and blocks around begin_time, in ticks *)
(* or in nanoseconds.                                                      *)
(***************************************************************************)
MaxClampRecords == 2
ClampTimes == {<<0, 5>>, <<0, 10>>, <<5, 20>>, <<10, 10>>, <<20, 15>>}

DClamp ==
    [DSync EXCEPT
        !.headers = {[pid |-> 1, cpu_frequency |-> f, begin_time |-> 10, end_time |-> 70,
                      memory_size |-> 2 * MaxClampRecords, descriptors_memory_size |-> 1,
                      total_blocks_number |-> 2 * MaxClampRecords,
                      total_descriptors_number |-> 1] : f \in {0, TIME_FACTOR \div 2}},
        !.threadIns = {[eofAt |-> "none", thread_id |-> 1, name |-> "", count |-> c] :
                       c \in 0..MaxClampRecords}
                      \cup {[eofAt |-> "thread_id", thread_id |-> 0, name |-> "",
                             count |-> 0]},
        !.csIns = {[eofAt |-> "none", sz |-> 1, begin |-> t[1], end |-> t[2],
                    name |-> ""] : t \in ClampTimes},
        !.countIns = {[eofAt |-> "none", count |-> c] : c \in 1..MaxClampRecords},
        !.blockIns = {[eofAt |-> "none", sz |-> 1, id |-> 0, begin |-> t[1], end |-> t[2],
                       name |-> ""] : t \in ClampTimes}]

NextClamp ==
    \/ Start(DClamp)
    \/ ReadSignature(DClamp)
    \/ ReadVersion(DClamp)
    \/ ReadHeader(DClamp)
    \/ ReadDescriptor(DClamp)
    \/ DescriptorsDone
    \/ ReadThreadHeader(DClamp)
    \/ ReadCSwitch(DClamp)
    \/ ReadBlockCount(DClamp)
    \/ ReadBlock(DClamp)
    \/ Progress90
    \/ EnterRoots
    \/ RootPlain
    \/ FinalStore

SpecClamp == Init /\ [][NextClamp]_vars

\* the begin of the trace and the times of a record read, in nanoseconds
TraceBegin == EASY_CONVERT_TO_NANO(header.begin_time, header.cpu_frequency)
NanoBegin(r) == EASY_CONVERT_TO_NANO(r.begin, header.cpu_frequency)
NanoEnd(r) == EASY_CONVERT_TO_NANO(r.end, header.cpu_frequency)

\* the records read that got a node
AttachedRecords == {n \in 1..Len(consumed) : consumed[n].index # NoParent}

\* C38: a block record is attached exactly when its end >= begin_time, a
\* context switch exactly when its end > begin_time; an attached record has
\* begin >= begin_time, and begin <= end if that held of the record read; the
\* records that are not attached are not counted in the count decode returns.
AttachedExactlyFromTraceBegin ==
    (op = "decode" /\ err = "") =>
        /\ \A n \in 1..Len(consumed) :
               n \in AttachedRecords
                   <=> IF consumed[n].kind = "block"
                       THEN NanoEnd(consumed[n]) >= TraceBegin
                       ELSE NanoEnd(consumed[n]) > TraceBegin
        /\ \A n \in AttachedRecords :
               /\ Blk(blocks, consumed[n].index).begin >= TraceBegin
               /\ Blk(blocks, consumed[n].index).end = NanoEnd(consumed[n])
               /\ Blk(blocks, consumed[n].index).begin \in {TraceBegin, NanoBegin(consumed[n])}
               /\ consumed[n].begin <= consumed[n].end
                      => Blk(blocks, consumed[n].index).begin
                             <= Blk(blocks, consumed[n].index).end
        /\ blocks_counter = Cardinality(AttachedRecords)
        /\ pc = "done" => result = Cardinality(AttachedRecords)

\* a decode of a trace in ticks has returned; a block that ends at begin_time
\* was attached with its begin raised to begin_time, a context switch that
\* ends at begin_time was not attached
RecordsEndingAtTraceBegin ==
    /\ op = "decode" /\ pc = "done" /\ err = "" /\ header.cpu_frequency # 0
    /\ \E n \in AttachedRecords :
           /\ consumed[n].kind = "block" /\ NanoEnd(consumed[n]) = TraceBegin
           /\ NanoBegin(consumed[n]) < TraceBegin
           /\ Blk(blocks, consumed[n].index).begin = TraceBegin
    /\ \E n \in 1..Len(consumed) :
           /\ consumed[n].kind = "cs" /\ NanoEnd(consumed[n]) = TraceBegin
           /\ n \notin AttachedRecords

(***************************************************************************)
(* The descriptor pool (checked under SpecProgress, whose descriptor       *)
(* records may be longer than the pool)                                    *)
(***************************************************************************)
\* C39: while the descriptor table is read, the number of descriptor bytes
\* stored into the descriptor pool never exceeds descriptors_memory_size, the
\* size the pool was allocated with.
DescriptorPoolNotOverrun ==
    op \in {"decode", "descriptions"} => descI <= header.descriptors_memory_size

(***************************************************************************)
(* The counts of a written header (checked under SpecTable)                *)
(***************************************************************************)
\* the number of records in the first n thread sections written
RECURSIVE RecordsWritten(_)
RecordsWritten(n) ==
    IF n = 0 THEN 0
    ELSE RecordsWritten(n - 1) + Len(out.threads[n].cswitches) + Len(out.threads[n].blocks)

\* the block count of the header, the records of the body and the value returned
BlockCountAgrees ==
    /\ out.header.total_blocks_number = RecordsWritten(Len(out.threads))
    /\ result = out.header.total_blocks_number

\* C40: in every stream written by a successful encode the header's block
\* count is the number of context-switch and block records written over all
\* thread sections, and is the value returned; the header's descriptor count
\* is the number of descriptor records written.
HeaderCountsAgreeWithBody ==
    (op = "encode" /\ pc = "done" /\ result # 0) =>
        /\ out.written
        /\ BlockCountAgrees
        /\ out.header.total_descriptors_number = Len(out.descriptors)

====
